---- MODULE Spec2Model ----
(***************************************************************************)
(* A model of antigravity-trace.py: the structural diff (delta), the trace *)
(* log (Log) and the stdio relay (shim).                                   *)
(*                                                                         *)
(* Text is a sequence of one-character strings, so that prefixing a key,   *)
(* measuring a serialization, sanitizing a name and sorting keys are done  *)
(* character by character, as the code does them.  A JSON value is a       *)
(* record [t |-> tag, v |-> payload] with tag null, int, str, list or dict;*)
(* a dict's payload is a function from keys (text) to JSON values.         *)
(***************************************************************************)
EXTENDS Integers, Sequences, FiniteSets, TLC

VARIABLES
  dpc, dprev, dnew, dres, \* delta(prev, new): the call's position, arguments, outcome
  lpc, lprev, lnew, lres, \* delta on two lists: the same
  verbose,                \* Log.verbose
  mode,                   \* Log.mode
  path,                   \* Log.path
  prev_log,               \* Log.prev_log: diff key -> [req, resp]
  file,                   \* the trace file on disk
  ncalls,                 \* the number of Log.trace calls made
  lastCall,               \* the last Log.trace call: how it ended, what it detected
  firstSummary,           \* the summary of the first call that carried one
  recent,                 \* label, endpoint, instruction -> the latest call stored
  proc,                   \* the child process
  written,                \* what the child has written to its stdout and stderr
  buffered,               \* what of it no relay has read yet
  relayed,                \* what the tool has written to its stdout and stderr
  broken,                 \* the tool's stdout (stderr) is a broken pipe
  task,                   \* the tasks stdout, stderr and stdin
  thread,                 \* the thread that reads the tool's stdin
  ninput,                 \* the number of chunks read from the tool's stdin
  childIn,                \* the child's stdin
  mainpc,                 \* where shim is
  exit,                   \* the exit of the tool
  \* pretty_proto on an encoded buffer
  ppc,                    \* "idle", "call" or "done"
  pfields,                \* the fields encoded
  pcut,                   \* the number of bytes of the encoding that are given
  pres,                   \* the decoding
  \* the start of shim
  spc,                    \* where shim is, from its version check on
  sconfig,                \* config["version"]
  spkg,                   \* pkg["version"] of the installed backend
  sargs,                  \* the flags given on the command line
  listeners,              \* the channels whose proxy listens
  launched,               \* the backend process has been launched
  sexit,                  \* the exit of the tool during its start
  \* one exchange through a proxy
  hchannel,               \* the channel of the proxy
  hbody,                  \* the chunks of the upstream's response body
  hsent,                  \* the number of chunks the upstream has sent
  hended,                 \* the upstream has ended the body
  hgot,                   \* the chunks the handler has received
  hcaller,                \* the chunks written to the caller
  hpc,                    \* where the handler is
  htraced,                \* the response body handed to log.trace
  \* the tasks of the event loop that call Log.trace
  running,                \* the task the loop runs, or none
  cpc,                    \* where each task is
  cread,                  \* what each task's call has read of the Log
  cdata,                  \* the number of arrivals each task was given
  cdone,                  \* the number of calls each task has finished
  cmode,                  \* the lifecycle mode of the file
  cfile,                  \* the file, as the pieces written to it
  cprev,                  \* the call that stored the state of each diff key
  cstale                  \* a call has stored over a state it had not read

dvars == <<dpc, dprev, dnew, dres>>
lvars == <<lpc, lprev, lnew, lres>>
gvars == <<verbose, mode, path, prev_log, file, ncalls, lastCall, firstSummary,
           recent>>
vars == <<dpc, dprev, dnew, dres, lpc, lprev, lnew, lres,
          verbose, mode, path, prev_log, file, ncalls, lastCall, firstSummary,
          recent,
          proc, written, buffered, relayed, broken, task, thread,
          ninput, childIn, mainpc, exit,
          ppc, pfields, pcut, pres,
          spc, sconfig, spkg, sargs, listeners, launched, sexit,
          hchannel, hbody, hsent, hended, hgot, hcaller, hpc, htraced,
          running, cpc, cread, cdata, cdone, cmode, cfile, cprev, cstale>>
rvars == <<proc, written, buffered, relayed, broken, task, thread,
           ninput, childIn, mainpc, exit>>

pvars == <<ppc, pfields, pcut, pres>>
svars == <<spc, sconfig, spkg, sargs, listeners, launched, sexit>>
hvars == <<hchannel, hbody, hsent, hended, hgot, hcaller, hpc, htraced>>
cvars == <<running, cpc, cread, cdata, cdone, cmode, cfile, cprev, cstale>>
xvars == <<pvars, svars, hvars, cvars>>

Streams == {"stdout", "stderr"}
Tasks == {"stdout", "stderr", "stdin"}

(***************************************************************************)
(* JSON values                                                             *)
(***************************************************************************)
JNull == [t |-> "null", v |-> 0]
JInt(n) == [t |-> "int", v |-> n]
JStr(s) == [t |-> "str", v |-> s]
JList(xs) == [t |-> "list", v |-> xs]
JDict(f) == [t |-> "dict", v |-> f]

\* The empty mapping, and a mapping written to key by key (d[k] = x).
EmptyMap == [k \in {} |-> JNull]
Put(d, k, x) == [j \in (DOMAIN d) \cup {k} |-> IF j = k THEN x ELSE d[j]]

\* Python's ==, as far as the values of the model go (no bools, no floats).
PyEq(a, b) == a.t = b.t /\ a.v = b.v

\* s repeated n times.
Rep(s, n) == [i \in 1..n |-> s]

(***************************************************************************)
(* sorted(): Python orders text by code point, character by character.     *)
(* Ascii lists the printable characters from code point 32 on (the         *)
(* backslash and the backtick, which no text of the model holds, each by a *)
(* placeholder).                                                           *)
(***************************************************************************)
Ascii ==
  <<" ", "!", "\"", "#", "$", "%", "&", "'", "(", ")", "*", "+">>
  \o <<",", "-", ".", "/", "0", "1", "2", "3", "4", "5", "6", "7">>
  \o <<"8", "9", ":", ";", "<", "=", ">", "?", "@", "A", "B", "C">>
  \o <<"D", "E", "F", "G", "H", "I", "J", "K", "L", "M", "N", "O">>
  \o <<"P", "Q", "R", "S", "T", "U", "V", "W", "X", "Y", "Z", "[">>
  \o <<"<backslash>", "]", "^", "_", "<backtick>", "a", "b", "c", "d", "e", "f", "g">>
  \o <<"h", "i", "j", "k", "l", "m", "n", "o", "p", "q", "r", "s">>
  \o <<"t", "u", "v", "w", "x", "y", "z", "{", "|", "}", "~">>

Ord(c) == 31 + (CHOOSE i \in 1..Len(Ascii) : Ascii[i] = c)

KeyLess(a, b) ==
  \E i \in 1..(Len(a) + 1) :
    /\ \A j \in 1..(i - 1) : j <= Len(b) /\ a[j] = b[j]
    /\ \/ i = Len(a) + 1 /\ Len(b) >= i
       \/ i <= Len(a) /\ i <= Len(b) /\ Ord(a[i]) < Ord(b[i])

RECURSIVE sorted(_)
sorted(S) ==
  IF S = {} THEN <<>>
  ELSE LET m == CHOOSE k \in S : \A j \in S : j = k \/ KeyLess(k, j)
       IN <<m>> \o sorted(S \ {m})

(***************************************************************************)
(* json.dumps(x, sort_keys=True): the compact text of a value, with the    *)
(* default separators ", " and ": ".  The text of the model holds no       *)
(* character that json.dumps escapes.                                      *)
(***************************************************************************)
DigitChar == <<"0", "1", "2", "3", "4", "5", "6", "7", "8", "9">>

RECURSIVE Digits(_)
Digits(n) ==
  IF n < 10 THEN <<DigitChar[n + 1]>>
  ELSE Digits(n \div 10) \o <<DigitChar[(n % 10) + 1]>>

RECURSIVE dumps(_)
RECURSIVE DumpItems(_, _)
RECURSIVE DumpPairs(_, _, _)

DumpItems(xs, i) ==
  IF i > Len(xs) THEN <<>>
  ELSE (IF i > 1 THEN <<",", " ">> ELSE <<>>) \o dumps(xs[i]) \o DumpItems(xs, i + 1)

DumpPairs(f, ks, i) ==
  IF i > Len(ks) THEN <<>>
  ELSE (IF i > 1 THEN <<",", " ">> ELSE <<>>)
         \o <<"\"">> \o ks[i] \o <<"\"", ":", " ">> \o dumps(f[ks[i]])
         \o DumpPairs(f, ks, i + 1)

dumps(x) ==
  CASE x.t = "null" -> <<"n", "u", "l", "l">>
    [] x.t = "int" -> IF x.v < 0 THEN <<"-">> \o Digits(0 - x.v) ELSE Digits(x.v)
    [] x.t = "str" -> <<"\"">> \o x.v \o <<"\"">>
    [] x.t = "list" -> <<"[">> \o DumpItems(x.v, 1) \o <<"]">>
    [] x.t = "dict" -> <<"{">> \o DumpPairs(x.v, sorted(DOMAIN x.v), 1) \o <<"}">>

\* blake2b with a 20-byte digest: taken to be free of collisions, so a digest
\* stands for the text it was computed from.
blake2b(s) == [digest |-> s]

(***************************************************************************)
(* delta(prev, new): the outcome is [ok, identical, delta]; ok = FALSE     *)
(* stands for an exception leaving the call.                               *)
(***************************************************************************)
Returned(identical, d) == [ok |-> TRUE, identical |-> identical, delta |-> d]
Raised == [ok |-> FALSE, identical |-> FALSE, delta |-> JNull]

\* The markers of a list delta, and the placeholders of an unchanged value.
Dots == JStr(<<".", ".", ".">>)
Dashes == JStr(<<"-", "-", "-">>)
UnchangedText == <<"u", "n", "c", "h", "a", "n", "g", "e", "d">>
RepeatText == <<"{", "r", "e", "p", "e", "a", "t", "}">>

CompactThreshold == 128

\* The digest a list element is matched by.
Hash(x) == blake2b(dumps(x))

\* next((ni for ni, (_nv, nh) in enumerate(newl) if ph == nh), None): the
\* first index of newl whose digest is ph, 0 for None (indices count from 1).
FirstMatch(ph, newl) ==
  IF \E ni \in 1..Len(newl) : Hash(newl[ni]) = ph
  THEN CHOOSE ni \in 1..Len(newl) :
         /\ Hash(newl[ni]) = ph
         /\ \A j \in 1..(ni - 1) : Hash(newl[j]) # ph
  ELSE 0

\* The walk with newl = newl[ni:] in place of newl[ni+1:]: the element
\* matched is not consumed.
RECURSIVE ListWalkKeepsMatch(_, _, _, _, _)
ListWalkKeepsMatch(prevl, i, newl, removals, additions) ==
  IF i > Len(prevl)
  THEN [removals |-> removals, additions |-> additions \o newl]
  ELSE LET ni == FirstMatch(Hash(prevl[i]), newl)
       IN IF ni = 0
          THEN ListWalkKeepsMatch(prevl, i + 1, newl, Append(removals, prevl[i]), additions)
          ELSE ListWalkKeepsMatch(prevl, i + 1, SubSeq(newl, ni, Len(newl)),
                                  removals, additions \o SubSeq(newl, 1, ni - 1))

\* The walk over prev from its element i on: [removals, additions] at its end.
RECURSIVE ListWalk(_, _, _, _, _)
ListWalk(prevl, i, newl, removals, additions) ==
  IF i > Len(prevl)
  THEN [removals |-> removals, additions |-> additions \o newl]
  ELSE LET ni == FirstMatch(Hash(prevl[i]), newl)
       IN IF ni = 0
          THEN ListWalk(prevl, i + 1, newl, Append(removals, prevl[i]), additions)
          ELSE ListWalk(prevl, i + 1, SubSeq(newl, ni + 1, Len(newl)),
                        removals, additions \o SubSeq(newl, 1, ni - 1))

\* A summary is given only when it is shorter than the new list.
ListSummaryLe(removals, additions, new2) ==
  IF Len(removals) = 0 /\ Len(additions) = 0 THEN Returned(TRUE, JList(new2))
  ELSE IF Len(removals) + Len(additions) <= Len(new2)
  THEN Returned(FALSE,
         JList(IF Len(removals) = 0 THEN <<Dots>> \o additions
               ELSE IF Len(additions) = 0 THEN <<Dashes>> \o removals
               ELSE <<Dots>> \o additions \o <<Dashes>> \o removals))
  ELSE Returned(FALSE, JList(new2))

ListSummary(removals, additions, new2) ==
  IF Len(removals) = 0 /\ Len(additions) = 0 THEN Returned(TRUE, JList(new2))
  ELSE IF Len(removals) + Len(additions) < Len(new2)
  THEN Returned(FALSE,
         JList(IF Len(removals) = 0 THEN <<Dots>> \o additions
               ELSE IF Len(additions) = 0 THEN <<Dashes>> \o removals
               ELSE <<Dots>> \o additions \o <<Dashes>> \o removals))
  ELSE Returned(FALSE, JList(new2))

DeltaList(prev, new) ==
  CHOOSE r \in { ListSummary(w.removals, w.additions, new) :
                   w \in {ListWalk(prev, 1, new, <<>>, <<>>)} } : TRUE

\* An unchanged value under its plain key: in full when its compact text is
\* short, else a placeholder by type (none for the other types).
PutUnchanged(d, k, x) ==
  IF Len(dumps(x)) < CompactThreshold THEN Put(d, k, x)
  ELSE IF x.t = "dict" THEN Put(d, k, JDict(Put(EmptyMap, UnchangedText, JStr(UnchangedText))))
  ELSE IF x.t = "list" THEN Put(d, k, JList(<<Dots>>))
  ELSE IF x.t = "str" THEN Put(d, k, JStr(UnchangedText))
  ELSE d

\* A changed list under k- and k+: iremove is the index of the first "---"
\* (0 for None; indices count from 1, so the code's iremove == 0 is 1 here).
PutListDelta(d, k, subdeltal) ==
  LET iremove == IF \E i \in 1..Len(subdeltal) : PyEq(subdeltal[i], Dashes)
                 THEN CHOOSE i \in 1..Len(subdeltal) :
                        /\ PyEq(subdeltal[i], Dashes)
                        /\ \A j \in 1..(i - 1) : ~PyEq(subdeltal[j], Dashes)
                 ELSE 0
      removals == IF iremove = 0 THEN <<>>
                  ELSE SubSeq(subdeltal, iremove + 1, Len(subdeltal))
      additions == IF iremove = 1 THEN <<>>
                   ELSE IF iremove = 0 THEN SubSeq(subdeltal, 2, Len(subdeltal))
                   ELSE SubSeq(subdeltal, 2, iremove - 1)
      d1 == IF Len(removals) > 0 THEN Put(d, k \o <<"-">>, JList(removals)) ELSE d
  IN IF Len(additions) > 0 THEN Put(d1, k \o <<"+">>, JList(additions)) ELSE d1

RECURSIVE delta(_, _)
RECURSIVE SharedKeys(_, _, _, _, _)

\* The body of the loop over the shared keys, for the key k with the new
\* value x and the outcome sub of delta(prev[k], new[k]): [ok, d].
PutShared(d, k, x, sub) ==
  IF ~sub.ok THEN [ok |-> FALSE, d |-> d]
  ELSE IF sub.identical THEN [ok |-> TRUE, d |-> PutUnchanged(d, k, x)]
  ELSE IF sub.delta.t # "list" THEN [ok |-> TRUE, d |-> Put(d, <<"*">> \o k, sub.delta)]
  ELSE IF Len(sub.delta.v) = 0 THEN [ok |-> FALSE, d |-> d]      \* subdelta[0]: IndexError
  ELSE IF ~PyEq(sub.delta.v[1], Dashes) /\ ~PyEq(sub.delta.v[1], Dots)
  THEN [ok |-> TRUE, d |-> Put(d, <<"*">> \o k, sub.delta)]
  ELSE [ok |-> TRUE, d |-> PutListDelta(d, k, sub.delta.v)]

\* for k in sorted(prev_keys & new_keys): the outcome is [ok, d].  (A value
\* drawn from a one-element set is computed once.)
SharedKeys(ks, i, d, prevl, newl) ==
  IF i > Len(ks) THEN [ok |-> TRUE, d |-> d]
  ELSE CHOOSE r \in
         { IF step.ok THEN SharedKeys(ks, i + 1, step.d, prevl, newl) ELSE step :
             step \in { PutShared(d, ks[i], newl[ks[i]], sub) :
                          sub \in {delta(prevl[ks[i]], newl[ks[i]])} } } : TRUE

\* for k in sorted(prev_keys - new_keys): d["-k"] = None
RECURSIVE PutRemoved(_, _, _)
PutRemoved(ks, i, d) ==
  IF i > Len(ks) THEN d
  ELSE PutRemoved(ks, i + 1, Put(d, <<"-">> \o ks[i], JNull))

\* for k in sorted(new_keys - prev_keys): d["+k"] = newl[k]
RECURSIVE PutAdded(_, _, _, _)
PutAdded(ks, i, d, newl) ==
  IF i > Len(ks) THEN d
  ELSE PutAdded(ks, i + 1, Put(d, <<"+">> \o ks[i], newl[ks[i]]), newl)

DeltaDict(prevl, newl) ==
  LET prev_keys == DOMAIN prevl
      new_keys == DOMAIN newl
      d1 == PutRemoved(sorted(prev_keys \ new_keys), 1, EmptyMap)
      d2 == PutAdded(sorted(new_keys \ prev_keys), 1, d1, newl)
  IN CHOOSE res \in
       { IF ~r.ok THEN Raised
         ELSE IF DOMAIN r.d = {} THEN Returned(TRUE, JStr(RepeatText))
         ELSE Returned(FALSE, JDict(r.d)) :
           r \in {SharedKeys(sorted(prev_keys \cap new_keys), 1, d2, prevl, newl)} } : TRUE

delta(prev, new) ==
  IF prev.t = "dict" /\ new.t = "dict" THEN DeltaDict(prev.v, new.v)
  ELSE IF prev.t = "list" /\ new.t = "list" THEN DeltaList(prev.v, new.v)
  ELSE Returned(PyEq(prev, new), new)

(***************************************************************************)
(* delta on bounded inputs.  SpecDelta calls delta on two values (scalars, *)
(* lists, mappings with nested values); SpecList calls it on two lists.    *)
(***************************************************************************)
MaxKeys == 2
MaxListLen == 3

Ka == <<"a">>
Kb == <<"b">>
KminusA == <<"-", "a">>
Keys == {Ka, Kb, KminusA}

\* A text whose compact form ("..." with its quotes) just reaches the
\* threshold, and a mapping of two short texts whose compact form exceeds it.
LongText == JStr(Rep("x", CompactThreshold - 2))
HalfText == JStr(Rep("x", CompactThreshold \div 2))
BigDict == JDict(Put(Put(EmptyMap, Ka, HalfText), Kb, HalfText))

Leaves ==
  { JInt(1), LongText,
    JList(<<>>), JList(<<JInt(1)>>), JList(<<JInt(1), JInt(2)>>),
    JDict(Put(EmptyMap, Ka, JInt(1))), BigDict }

Dicts ==
  UNION { [ks -> Leaves] : ks \in { S \in SUBSET Keys : Cardinality(S) <= MaxKeys } }

Values == Leaves \cup { JDict(f) : f \in Dicts }

Elems == { JStr(<<"a">>), JStr(<<"b">>), JStr(<<"c">>), JStr(<<"d">>) }
Lists == UNION { [1..n -> Elems] : n \in 0..MaxListLen }

\* The file names of a run: LOGDIR/<ts>.html and LOGDIR/<ts> - <name>.html.
TimestampPath == [named |-> FALSE, name |-> <<>>]
NamedPath(name) == [named |-> TRUE, name |-> name]

\* The disk: no trace file, or one at a path holding lines.  The first line
\* of a file written by _preamble is Template, the others are records.
NoFile == [exists |-> FALSE, path |-> TimestampPath, lines |-> <<>>]
Template == [template |-> TRUE]

\* No summary detected.
NoSummary == [some |-> FALSE, text |-> <<>>]

\* The arguments None of Log.trace: no payload, no headers.
NoPayload == [kind |-> "none", values |-> <<>>, text |-> <<>>]
NoHeaders == [some |-> FALSE, h |-> EmptyMap]

\* No call of Log.trace yet.
NoExchange ==
  [label |-> <<>>, endpoint |-> <<>>, request |-> NoPayload,
   req_headers |-> NoHeaders, response |-> NoPayload, resp_headers |-> NoHeaders]

\* The Log before its first call (Log.__init__).  lastCall keeps the
\* arguments of the latest call, the Log as that call found it, and how the
\* call ended.
NoCall == [outcome |-> "none", summary |-> NoSummary, modeBefore |-> "absent",
           first |-> FALSE, exchange |-> NoExchange,
           before |-> [path |-> TimestampPath, file |-> NoFile,
                       prev_log |-> EmptyMap]]

LogFresh ==
  /\ mode = "absent" /\ path = TimestampPath
  /\ prev_log = EmptyMap /\ file = NoFile /\ ncalls = 0
  /\ lastCall = NoCall /\ firstSummary = NoSummary
  /\ recent = EmptyMap

LogIdle == verbose = FALSE /\ LogFresh

\* The relay before the child is started.
RelayIdle ==
  /\ proc = [state |-> "none", returncode |-> 0]
  /\ written = [s \in Streams |-> <<>>]
  /\ buffered = [s \in Streams |-> <<>>]
  /\ relayed = [s \in Streams |-> <<>>]
  /\ broken = [s \in Streams |-> FALSE]
  /\ task = [t \in Tasks |-> "none"]
  /\ thread = [state |-> "idle", chunk |-> ""]
  /\ ninput = 0
  /\ childIn = [open |-> FALSE, closed |-> FALSE, received |-> <<>>]
  /\ mainpc = "start"
  /\ exit = [exited |-> FALSE, code |-> 0]

ProtoIdle ==
  /\ ppc = "idle" /\ pfields = <<>> /\ pcut = 0
  /\ pres = [ok |-> FALSE, err |-> "", value |-> JNull, pos |-> 0]
StartIdle ==
  /\ spc = "idle" /\ sconfig = "" /\ spkg = "" /\ sargs = {}
  /\ listeners = {} /\ launched = FALSE
  /\ sexit = [exited |-> FALSE, code |-> 0, error_txt |-> FALSE]
ProxyIdle ==
  /\ hchannel = "" /\ hbody = <<>> /\ hsent = 0 /\ hended = FALSE
  /\ hgot = <<>> /\ hcaller = <<>> /\ hpc = "idle"
  /\ htraced = [some |-> FALSE, body |-> <<>>]
ConcIdle ==
  /\ running = "none" /\ cpc = <<>> /\ cread = <<>> /\ cdata = <<>>
  /\ cdone = <<>> /\ cmode = "absent" /\ cfile = <<>> /\ cprev = <<>>
  /\ cstale = FALSE
XIdle == ProtoIdle /\ StartIdle /\ ProxyIdle /\ ConcIdle

DeltaIdle == dpc = "idle" /\ dprev = JNull /\ dnew = JNull /\ dres = Raised
ListIdle == lpc = "idle" /\ lprev = <<>> /\ lnew = <<>> /\ lres = Raised

InitDelta ==
  /\ dpc = "call" /\ dprev \in Values /\ dnew \in Values /\ dres = Raised
  /\ ListIdle /\ LogIdle /\ RelayIdle /\ XIdle

CallDelta ==
  /\ dpc = "call"
  /\ dres' = delta(dprev, dnew)
  /\ dpc' = "done"
  /\ UNCHANGED <<xvars, dprev, dnew, lvars, gvars, rvars>>

NextDelta == CallDelta

SpecDelta == InitDelta /\ [][NextDelta]_vars

InitList ==
  /\ lpc = "call" /\ lprev \in Lists /\ lnew \in Lists /\ lres = Raised
  /\ DeltaIdle /\ LogIdle /\ RelayIdle /\ XIdle

CallDeltaList ==
  /\ lpc = "call"
  /\ lres' = delta(JList(lprev), JList(lnew))
  /\ lpc' = "done"
  /\ UNCHANGED <<xvars, lprev, lnew, dvars, gvars, rvars>>

NextList == CallDeltaList

SpecList == InitList /\ [][NextList]_vars

(***************************************************************************)
(* Claims on delta                                                         *)
(***************************************************************************)
BothDicts == dprev.t = "dict" /\ dnew.t = "dict"
SharedOf(a, b) == (DOMAIN a.v) \cap (DOMAIN b.v)

\* C3: diffing never fails outward: for every pair of values delta(prev, new)
\* returns a value and raises nothing.
C3_DeltaNeverRaises == dpc = "done" => dres.ok

\* C6: identity law: delta(X, X) returns the verdict true and a delta equal
\* to X, for every value X.
C6_IdentityLaw ==
  (dpc = "done" /\ PyEq(dprev, dnew))
    => (dres.ok /\ dres.identical /\ PyEq(dres.delta, dnew))

\* C7: mapping law, markers: whenever delta returns on two mappings, its delta
\* holds "-k": null for every key k only in prev and "+k": cur[k] for every
\* key k only in cur, whatever the other keys are.
C7_MappingMarkers ==
  (dpc = "done" /\ BothDicts /\ dres.ok)
    => /\ \A k \in (DOMAIN dprev.v) \ (DOMAIN dnew.v) :
            /\ dres.delta.t = "dict"
            /\ (<<"-">> \o k) \in DOMAIN dres.delta.v
            /\ PyEq(dres.delta.v[<<"-">> \o k], JNull)
       /\ \A k \in (DOMAIN dnew.v) \ (DOMAIN dprev.v) :
            /\ dres.delta.t = "dict"
            /\ (<<"+">> \o k) \in DOMAIN dres.delta.v
            /\ PyEq(dres.delta.v[<<"+">> \o k], dnew.v[k])

\* C8: mapping law, no spurious change: whenever delta returns on two
\* mappings, a key k of both whose values are equal (nested mappings
\* included) has no changed-marker entry ("*k", "k+", "k-") in the delta.
C8_NoSpuriousChange ==
  (dpc = "done" /\ BothDicts /\ dres.ok /\ dres.delta.t = "dict")
    => \A k \in SharedOf(dprev, dnew) :
         PyEq(dprev.v[k], dnew.v[k])
           => /\ (<<"*">> \o k) \notin DOMAIN dres.delta.v
              /\ (k \o <<"+">>) \notin DOMAIN dres.delta.v
              /\ (k \o <<"-">>) \notin DOMAIN dres.delta.v

\* C10: compaction: an unchanged value of a shared key whose compact text
\* reaches the threshold is never restated in full in the delta, be it a
\* text, a sequence or a mapping.
C10_Compaction ==
  (dpc = "done" /\ BothDicts /\ dres.ok /\ dres.delta.t = "dict")
    => \A k \in SharedOf(dprev, dnew) :
         (PyEq(dprev.v[k], dnew.v[k]) /\ Len(dumps(dnew.v[k])) >= CompactThreshold)
           => \A j \in {k, <<"*">> \o k, k \o <<"+">>, k \o <<"-">>} :
                j \in DOMAIN dres.delta.v => ~PyEq(dres.delta.v[j], dnew.v[k])

(***************************************************************************)
(* Claims on the delta of two lists                                        *)
(***************************************************************************)
Has(s, x) == \E i \in 1..Len(s) : s[i] = x
Distinct(s) == \A i, j \in 1..Len(s) : i # j => s[i] # s[j]
Without(s, other) == LET Keep(x) == ~Has(other, x) IN SelectSeq(s, Keep)
Common(s, other) == LET Keep(x) == Has(other, x) IN SelectSeq(s, Keep)

\* cur is prev with some elements dropped and some new ones inserted, the
\* elements of each being pairwise distinct and the shared ones keeping
\* their order.
IsEdit(prev, cur) ==
  /\ Distinct(prev) /\ Distinct(cur)
  /\ Common(prev, cur) = Common(cur, prev)

Summary(additions, removals) ==
  JList(IF Len(removals) = 0 THEN <<Dots>> \o additions
        ELSE IF Len(additions) = 0 THEN <<Dashes>> \o removals
        ELSE <<Dots>> \o additions \o <<Dashes>> \o removals)

\* C9 as stated: for every such prev and cur (at least one element dropped
\* and one inserted) delta returns the verdict false and reports exactly the
\* dropped elements as removals and the inserted ones as additions, without
\* the shared elements.
C9_SequenceLawAsStated ==
  (lpc = "done" /\ IsEdit(lprev, lnew)
     /\ Without(lprev, lnew) # <<>> /\ Without(lnew, lprev) # <<>>)
    => /\ lres.ok /\ ~lres.identical
       /\ lres.delta = Summary(Without(lnew, lprev), Without(lprev, lnew))

\* C9 amended: for prev and cur of pairwise distinct elements, cur being prev
\* with elements dropped or inserted (at least one of either, shared elements
\* in order), delta returns the verdict false; it reports exactly the dropped
\* elements as removals and the inserted ones as additions, without the
\* shared elements, when dropped plus inserted are fewer than len(cur), and
\* restates cur in full otherwise.
C9_SequenceLaw ==
  (lpc = "done" /\ IsEdit(lprev, lnew)
     /\ (Without(lprev, lnew) # <<>> \/ Without(lnew, lprev) # <<>>))
    => /\ lres.ok /\ ~lres.identical
       /\ lres.delta =
            IF Len(Without(lprev, lnew)) + Len(Without(lnew, lprev)) < Len(lnew)
            THEN Summary(Without(lnew, lprev), Without(lprev, lnew))
            ELSE JList(lnew)

\* delta([a,b,c], [b,c,d]) has returned ["...", d, "---", a].
C9_Witness ==
  /\ lpc = "done"
  /\ lprev = <<JStr(<<"a">>), JStr(<<"b">>), JStr(<<"c">>)>>
  /\ lnew = <<JStr(<<"b">>), JStr(<<"c">>), JStr(<<"d">>)>>
  /\ lres = Returned(FALSE, JList(<<Dots, JStr(<<"d">>), Dashes, JStr(<<"a">>)>>))

\* The removals and additions of the walk of the call, and the number of
\* times x occurs in s.
Walked == ListWalk(lprev, 1, lnew, <<>>, <<>>)
Count(s, x) == Cardinality({ i \in 1..Len(s) : s[i] = x })

\* C23: the removals are elements of prev, and prev without the removals and
\* with the additions has the elements of cur, each as many times as cur (so
\* len(prev) - len(removals) = len(cur) - len(additions)); removals and
\* additions are both empty iff prev and cur are equal element by element.
C23_DiffConservation ==
  lpc = "done" =>
    \E w \in {Walked} :
      /\ \A x \in Elems :
           /\ Count(w.removals, x) <= Count(lprev, x)
           /\ Count(lprev, x) - Count(w.removals, x) + Count(w.additions, x)
                = Count(lnew, x)
      /\ Len(lprev) - Len(w.removals) = Len(lnew) - Len(w.additions)
      /\ (w.removals = <<>> /\ w.additions = <<>>) <=> lprev = lnew
      /\ lres.identical <=> lprev = lnew

\* delta([a,b,a], [b,a,c]): the first a is matched with the a of cur, b and
\* c are additions, b and the second a are removals.
C23_Witness ==
  /\ lpc = "done"
  /\ lprev = <<JStr(<<"a">>), JStr(<<"b">>), JStr(<<"a">>)>>
  /\ lnew = <<JStr(<<"b">>), JStr(<<"a">>), JStr(<<"c">>)>>
  /\ Walked = [removals |-> <<JStr(<<"b">>), JStr(<<"a">>)>>,
               additions |-> <<JStr(<<"b">>), JStr(<<"c">>)>>]
  /\ lres = Returned(FALSE, JList(lnew))

(***************************************************************************)
(* Text operations of the trace log                                        *)
(***************************************************************************)
\* sub in s
Contains(s, sub) ==
  \E i \in 0..(Len(s) - Len(sub)) : SubSeq(s, i + 1, i + Len(sub)) = sub

\* s.startswith(pre)
StartsWith(s, pre) == Len(s) >= Len(pre) /\ SubSeq(s, 1, Len(pre)) = pre

\* s.strip(chars): s without its leading and trailing characters of chars.
StripChars(s, chars) ==
  LET keep == { i \in 1..Len(s) : s[i] \notin chars }
  IN IF keep = {} THEN <<>>
     ELSE SubSeq(s, CHOOSE i \in keep : \A j \in keep : i <= j,
                    CHOOSE i \in keep : \A j \in keep : i >= j)

Whitespace == {" ", "\n", "\t", "\r"}
LineBreaks == {"\n", "\r"}

\* s.splitlines()[0] of a text that is not empty.
FirstLine(s) ==
  LET brk == { i \in 1..Len(s) : s[i] \in LineBreaks }
  IN IF brk = {} THEN s
     ELSE SubSeq(s, 1, (CHOOSE i \in brk : \A j \in brk : i <= j) - 1)

\* re.sub(r'[<>:"/\\|?*\x00-\x1F]', "_", summary).strip(" .")
IllegalChars == {"<", ">", ":", "\"", "/", "|", "?", "*", "\n", "\t", "\r"}
Sanitize(summary) ==
  StripChars([i \in 1..Len(summary) |->
                IF summary[i] \in IllegalChars THEN "_" ELSE summary[i]],
             {" ", "."})

NameLimit == 120
TouchUpLimit == 256

\* s[:n]
Prefix(s, n) == SubSeq(s, 1, IF Len(s) < n THEN Len(s) ELSE n)

SGC ==
  <<"s", "t", "r", "e", "a", "m", "G", "e", "n", "e", "r", "a", "t",
    "e", "C", "o", "n", "t", "e", "n", "t">>
UCTS ==
  <<"U", "p", "d", "a", "t", "e", "C", "a", "s", "c", "a", "d", "e",
    "T", "r", "a", "j", "e", "c", "t", "o", "r", "y", "S", "u", "m",
    "m", "a", "r", "i", "e", "s">>
TitlePrompt ==
  <<"G", "e", "n", "e", "r", "a", "t", "e", " ", "a", " ", "s", "h",
    "o", "r", "t", " ", "c", "o", "n", "v", "e", "r", "s", "a", "t",
    "i", "o", "n", " ", "t", "i", "t", "l", "e">>
KRequest ==
  <<"r", "e", "q", "u", "e", "s", "t">>
KContents ==
  <<"c", "o", "n", "t", "e", "n", "t", "s">>
KParts ==
  <<"p", "a", "r", "t", "s">>
KText ==
  <<"t", "e", "x", "t">>
KSystemInstruction ==
  <<"s", "y", "s", "t", "e", "m", "I", "n", "s", "t", "r", "u", "c",
    "t", "i", "o", "n">>
KResponse ==
  <<"r", "e", "s", "p", "o", "n", "s", "e">>
KCandidates ==
  <<"c", "a", "n", "d", "i", "d", "a", "t", "e", "s">>
KContent ==
  <<"c", "o", "n", "t", "e", "n", "t">>
Redacted ==
  <<"[", "R", "E", "D", "A", "C", "T", "E", "D", "]">>

(***************************************************************************)
(* pretty_proto(buf): the decoder of the protobuf wire format.  A byte is  *)
(* an integer of 0..255 and a buffer a sequence of bytes; the code counts  *)
(* positions from 0, so the byte at position pos is buf[pos + 1] here.     *)
(* A decoding is [ok, err, value, pos]: ok = FALSE for an exception, err   *)
(* its class, pos the position up to which the bytes were read.            *)
(***************************************************************************)
RECURSIVE pretty(_)

BytesPayload(b) == [kind |-> "bytes", values |-> <<>>, text |-> b]

ProtoRaised(err, pos) == [ok |-> FALSE, err |-> err, value |-> JNull, pos |-> pos]
ProtoReturned(value, pos) == [ok |-> TRUE, err |-> "", value |-> value, pos |-> pos]

\* read_varint that gives the value read so far at the end of the data,
\* where the code asserts.
RECURSIVE ReadVarintLenient(_, _, _, _)
ReadVarintLenient(data, pos, shift, value) ==
  IF pos < Len(data)
  THEN LET b == data[pos + 1]
           value2 == value + (b % 128) * 2^shift
       IN IF b < 128 THEN [ok |-> TRUE, value |-> value2, pos |-> pos + 1]
          ELSE ReadVarintLenient(data, pos + 1, shift + 7, value2)
  ELSE [ok |-> TRUE, value |-> value, pos |-> pos]

\* The loop of read_varint (lines 290-297) from position pos on: the bits of
\* value are disjoint from the bits added, so | is +.
RECURSIVE ReadVarintFrom(_, _, _, _)
ReadVarintFrom(data, pos, shift, value) ==
  IF pos < Len(data)
  THEN LET b == data[pos + 1]
           value2 == value + (b % 128) * 2^shift
       IN IF b < 128 THEN [ok |-> TRUE, value |-> value2, pos |-> pos + 1]
          ELSE ReadVarintFrom(data, pos + 1, shift + 7, value2)
  ELSE [ok |-> FALSE, value |-> 0, pos |-> pos]

read_varint(data, pos) == ReadVarintFrom(data, pos, 0, 0)

\* buf[pos : pos + n], asked for only where pos + n <= len(buf).
Slice(buf, pos, n) == SubSeq(buf, pos + 1, pos + n)

\* int.from_bytes(b, "little")
RECURSIVE from_bytes(_)
from_bytes(b) == IF b = <<>> THEN 0 ELSE b[1] + 256 * from_bytes(Tail(b))

\* The loop of lines 301-321: [ok, err, out, pos].
RECURSIVE ProtoFields(_, _, _)
ProtoFields(buf, pos, out) ==
  IF ~(pos < Len(buf)) THEN [ok |-> TRUE, err |-> "", out |-> out, pos |-> pos]
  ELSE
   CHOOSE r \in
     { IF ~key.ok THEN [ok |-> FALSE, err |-> "AssertionError", out |-> out, pos |-> key.pos]
       ELSE
        LET wire == key.value % 8
            failed == [ok |-> FALSE, err |-> "AssertionError", out |-> out, pos |-> key.pos]
        IN CASE wire = 0 ->
                  CHOOSE r0 \in
                    { IF ~val.ok THEN [failed EXCEPT !.pos = val.pos]
                      ELSE ProtoFields(buf, val.pos, Append(out, JInt(val.value))) :
                        val \in {read_varint(buf, key.pos)} } : TRUE
             [] wire = 1 ->
                  IF key.pos + 8 <= Len(buf)
                  THEN ProtoFields(buf, key.pos + 8,
                                   Append(out, JInt(from_bytes(Slice(buf, key.pos, 8)))))
                  ELSE failed
             [] wire = 2 ->
                  CHOOSE r2 \in
                    { IF ~length.ok THEN [failed EXCEPT !.pos = length.pos]
                      ELSE IF length.pos + length.value <= Len(buf)
                      THEN ProtoFields(buf, length.pos + length.value,
                             Append(out, pretty(BytesPayload(
                                           Slice(buf, length.pos, length.value)))))
                      ELSE [failed EXCEPT !.pos = length.pos] :
                        length \in {read_varint(buf, key.pos)} } : TRUE
             [] wire = 5 ->
                  IF key.pos + 4 <= Len(buf)
                  THEN ProtoFields(buf, key.pos + 4,
                                   Append(out, JInt(from_bytes(Slice(buf, key.pos, 4)))))
                  ELSE failed
             [] OTHER -> failed :
         key \in {read_varint(buf, pos)} } : TRUE

\* for item in x: the items a loop over x visits.
Iterate(x) ==
  CASE x.t = "list" -> [ok |-> TRUE, items |-> x.v]
    [] x.t = "dict" ->
         [ok |-> TRUE, items |-> [i \in 1..Cardinality(DOMAIN x.v) |->
                                    JStr(sorted(DOMAIN x.v)[i])]]
    [] x.t = "str" -> [ok |-> TRUE, items |-> [i \in 1..Len(x.v) |-> JStr(<<x.v[i]>>)]]
    [] OTHER -> [ok |-> FALSE, items |-> <<>>]

\* isinstance(x, list) and len(x) == 2 and isinstance(x[0], str)
IsPair(x) == x.t = "list" /\ Len(x.v) = 2 /\ x.v[1].t = "str"

\* dict(pairs): the later of two pairs with one key wins.
RECURSIVE DictOf(_, _, _)
DictOf(pairs, i, d) ==
  IF i > Len(pairs) THEN d
  ELSE DictOf(pairs, i + 1, Put(d, pairs[i].v[1].v, pairs[i].v[2]))

\* Lines 322-326: the final assert and the mapping made of a single element
\* that holds [string, value] pairs only.  The loop over out[0] fails on a
\* value that cannot be iterated.
Collapse(out, pos) ==
  IF Len(out) # 1 THEN ProtoReturned(JList(out), pos)
  ELSE CHOOSE r \in
         { IF ~it.ok THEN ProtoRaised("TypeError", pos)
           ELSE IF \A i \in 1..Len(it.items) : IsPair(it.items[i])
           THEN ProtoReturned(JDict(DictOf(it.items, 1, EmptyMap)), pos)
           ELSE ProtoReturned(JList(out), pos) :
             it \in {Iterate(out[1])} } : TRUE

pretty_proto(buf) ==
  CHOOSE r \in
    { IF ~fields.ok THEN ProtoRaised(fields.err, fields.pos)
      ELSE IF fields.pos # Len(buf) THEN ProtoRaised("AssertionError", fields.pos)
      ELSE Collapse(fields.out, fields.pos) :
        fields \in {ProtoFields(buf, 0, <<>>)} } : TRUE

\* The characters of code points 0..31 and 127, by name where TLA+ has no
\* text for them.
Control ==
  <<"<NUL>", "<SOH>", "<STX>", "<ETX>", "<EOT>", "<ENQ>", "<ACK>", "<BEL>">>
  \o <<"<BS>", "\t", "\n", "<VT>", "<FF>", "\r", "<SO>", "<SI>">>
  \o <<"<DLE>", "<DC1>", "<DC2>", "<DC3>", "<DC4>", "<NAK>", "<SYN>", "<ETB>">>
  \o <<"<CAN>", "<EM>", "<SUB>", "<ESC>", "<FS>", "<GS>", "<RS>", "<US>">>
Chr(b) == IF b < 32 THEN Control[b + 1] ELSE IF b = 127 THEN "<DEL>" ELSE Ascii[b - 31]

\* What str.strip() strips from a text of code points below 128.
StrWhitespace == Whitespace \cup {"<VT>", "<FF>", "<FS>", "<GS>", "<RS>", "<US>"}

\* buf.hex()
HexDigits ==
  <<"0", "1", "2", "3", "4", "5", "6", "7", "8", "9", "a", "b", "c", "d", "e", "f">>
Hex(b) ==
  [i \in 1..(2 * Len(b)) |->
     IF i % 2 = 1 THEN HexDigits[(b[(i + 1) \div 2] \div 16) + 1]
     ELSE HexDigits[(b[i \div 2] % 16) + 1]]

\* The characters a JSON text can start with, and the start of "data:".
JsonStart ==
  {"0", "1", "2", "3", "4", "5", "6", "7", "8", "9", "-", "\"", "[", "{",
   "t", "f", "n", "N", "I"}
Unmodelled == [t |-> "unmodelled", v |-> 0]

\* Lines 339-362 for bytes that pretty_proto rejects.  The buffers of the
\* model hold no byte of 0xC0 or more, so a byte of 0x80 or more is not
\* UTF-8.  The text that is left after strip() is returned as it is when it
\* holds no event stream and no JSON, which is decided by its first
\* character; the model draws no buffer of another text.
NotProto(b) ==
  IF \E i \in 1..Len(b) : b[i] >= 128 THEN JStr(Hex(b))
  ELSE LET text == StripChars([i \in 1..Len(b) |-> Chr(b[i])], StrWhitespace)
       IN IF 2 * Len(b) < Len(text) THEN JStr(Hex(b))
          ELSE IF text = <<>> THEN JList(<<>>)
          ELSE IF text[1] \in JsonStart \cup {"d"} THEN Unmodelled
          ELSE JStr(text)

(***************************************************************************)
(* pretty(buf).  A payload is None, or a text given by what it holds: one  *)
(* JSON value (kind "json"), an event stream of "data:" lines each holding *)
(* a JSON value (kind "sse"), or a text that is neither (kind "text").     *)
(* A payload of bytes that is none of these is given by its bytes (kind    *)
(* "bytes", the bytes under text).                                         *)
(***************************************************************************)
JsonPayload(x) == [kind |-> "json", values |-> <<x>>, text |-> <<>>]
SsePayload(xs) == [kind |-> "sse", values |-> xs, text |-> <<>>]
TextPayload(s) == [kind |-> "text", values |-> <<>>, text |-> s]

pretty(buf) ==
  CASE buf.kind = "none" -> JNull
    [] buf.kind = "bytes" ->
         CHOOSE r \in { IF proto.ok THEN proto.value ELSE NotProto(buf.text) :
                          proto \in {pretty_proto(buf.text)} } : TRUE
    [] buf.kind = "json" -> buf.values[1]
    [] buf.kind = "sse" ->
         IF Len(buf.values) = 1 THEN buf.values[1] ELSE JList(buf.values)
    [] buf.kind = "text" -> JStr(buf.text)

(***************************************************************************)
(* The summary of an exchange (Log.trace, "has the LLM given us a          *)
(* summary?").  A failed step of the code (an exception, which the code    *)
(* swallows) is ok = FALSE.                                                *)
(***************************************************************************)
\* Python's truth value of a JSON value.
Truthy(x) ==
  CASE x.t = "null" -> FALSE
    [] x.t = "int" -> x.v # 0
    [] x.t = "str" -> Len(x.v) > 0
    [] x.t = "list" -> Len(x.v) > 0
    [] x.t = "dict" -> DOMAIN x.v # {}

\* x.get(key, default) on a mapping x.
Get(x, key, default) == IF key \in DOMAIN x.v THEN x.v[key] ELSE default

\* [part['text'] for part in parts if 'text' in part and isinstance(part['text'], str)]
RECURSIVE PartTexts(_, _)
PartTexts(parts, i) ==
  IF i > Len(parts) THEN [ok |-> TRUE, texts |-> <<>>]
  ELSE LET part == parts[i]
           rest == PartTexts(parts, i + 1)
           has == CASE part.t = "dict" -> [ok |-> TRUE, b |-> KText \in DOMAIN part.v]
                    [] part.t = "str" -> [ok |-> TRUE, b |-> Contains(part.v, KText)]
                    [] part.t = "list" ->
                         [ok |-> TRUE, b |-> \E j \in 1..Len(part.v) : PyEq(part.v[j], JStr(KText))]
                    [] OTHER -> [ok |-> FALSE, b |-> FALSE]
       IN IF ~has.ok \/ ~rest.ok THEN [ok |-> FALSE, texts |-> <<>>]
          ELSE IF ~has.b THEN rest
          ELSE IF part.t # "dict" THEN [ok |-> FALSE, texts |-> <<>>]
          ELSE IF part.v[KText].t = "str"
          THEN [ok |-> TRUE, texts |-> <<part.v[KText].v>> \o rest.texts]
          ELSE rest

\* The texts of content.get('parts', []) over the contents.
RECURSIVE ContentTexts(_, _)
ContentTexts(contents, i) ==
  IF i > Len(contents) THEN [ok |-> TRUE, texts |-> <<>>]
  ELSE LET content == contents[i]
           rest == ContentTexts(contents, i + 1)
       IN IF content.t # "dict" \/ ~rest.ok THEN [ok |-> FALSE, texts |-> <<>>]
          ELSE LET it == Iterate(Get(content, KParts, JList(<<>>)))
                   pt == PartTexts(it.items, 1)
               IN IF ~it.ok \/ ~pt.ok THEN [ok |-> FALSE, texts |-> <<>>]
                  ELSE [ok |-> TRUE, texts |-> pt.texts \o rest.texts]

\* The texts of candidate.get('content', {}).get('parts', []) over the candidates.
RECURSIVE CandidateTexts(_, _)
CandidateTexts(candidates, i) ==
  IF i > Len(candidates) THEN [ok |-> TRUE, texts |-> <<>>]
  ELSE LET candidate == candidates[i]
           rest == CandidateTexts(candidates, i + 1)
       IN IF candidate.t # "dict" \/ ~rest.ok THEN [ok |-> FALSE, texts |-> <<>>]
          ELSE LET content == Get(candidate, KContent, JDict(EmptyMap))
               IN IF content.t # "dict" THEN [ok |-> FALSE, texts |-> <<>>]
                  ELSE LET it == Iterate(Get(content, KParts, JList(<<>>)))
                           pt == PartTexts(it.items, 1)
                       IN IF ~it.ok \/ ~pt.ok THEN [ok |-> FALSE, texts |-> <<>>]
                          ELSE [ok |-> TRUE, texts |-> pt.texts \o rest.texts]

\* The texts of response.get('response', {}).get('candidates', []) over the responses.
RECURSIVE ResponseTexts(_, _)
ResponseTexts(responses, i) ==
  IF i > Len(responses) THEN [ok |-> TRUE, texts |-> <<>>]
  ELSE LET response == responses[i]
           rest == ResponseTexts(responses, i + 1)
       IN IF response.t # "dict" \/ ~rest.ok THEN [ok |-> FALSE, texts |-> <<>>]
          ELSE LET inner == Get(response, KResponse, JDict(EmptyMap))
               IN IF inner.t # "dict" THEN [ok |-> FALSE, texts |-> <<>>]
                  ELSE LET it == Iterate(Get(inner, KCandidates, JList(<<>>)))
                           ct == CandidateTexts(it.items, 1)
                       IN IF ~it.ok \/ ~ct.ok THEN [ok |-> FALSE, texts |-> <<>>]
                          ELSE [ok |-> TRUE, texts |-> ct.texts \o rest.texts]

\* ''.join(texts)
RECURSIVE Join(_, _)
Join(texts, i) == IF i > Len(texts) THEN <<>> ELSE texts[i] \o Join(texts, i + 1)

\* k is request2['request'] (None when there is none).
DetectSummary(endpoint, k, response2) ==
  IF ~(Contains(endpoint, SGC) /\ Truthy(k)) THEN NoSummary
  ELSE IF k.t # "dict" THEN NoSummary
  ELSE LET it == Iterate(Get(k, KContents, JDict(EmptyMap)))
           requestParts == ContentTexts(it.items, 1)
       IN IF ~it.ok \/ ~requestParts.ok THEN NoSummary
          ELSE IF ~\E i \in 1..Len(requestParts.texts) :
                     StartsWith(requestParts.texts[i], TitlePrompt)
          THEN NoSummary
          ELSE LET responses == IF response2.t = "list" THEN response2.v ELSE <<response2>>
                   rt == ResponseTexts(responses, 1)
                   responseText == StripChars(Join(rt.texts, 1), Whitespace)
               IN IF ~rt.ok \/ responseText = <<>> THEN NoSummary
                  ELSE [some |-> TRUE, text |-> FirstLine(responseText)]

(***************************************************************************)
(* Log: the trace file and the per-key state                               *)
(***************************************************************************)
LabelStdio ==
  <<"S", "T", "D", "I", "O">>
LabelExtension ==
  <<"E", "X", "T", "E", "N", "S", "I", "O", "N">>
LabelCloud ==
  <<"C", "L", "O", "U", "D">>
EpStdout ==
  <<"s", "t", "d", "o", "u", "t">>
EpStdin ==
  <<"s", "t", "d", "i", "n">>
EpOther ==
  <<"/", "x">>
EpCmdline ==
  <<"c", "m", "d", "l", "i", "n", "e">>
KStarRequest ==
  <<"*", "r", "e", "q", "u", "e", "s", "t">>
KStarSystemInstruction ==
  <<"*", "s", "y", "s", "t", "e", "m", "I", "n", "s", "t", "r", "u",
    "c", "t", "i", "o", "n">>
HAuthorization ==
  <<"A", "u", "t", "h", "o", "r", "i", "z", "a", "t", "i", "o", "n">>
HAccept ==
  <<"A", "c", "c", "e", "p", "t">>
HSetCookie ==
  <<"S", "e", "t", "-", "C", "o", "o", "k", "i", "e">>
BearerXyz ==
  <<"B", "e", "a", "r", "e", "r", " ", "x", "y", "z">>
BlAuthorization ==
  <<"a", "u", "t", "h", "o", "r", "i", "z", "a", "t", "i", "o", "n">>
BlCookie ==
  <<"c", "o", "o", "k", "i", "e">>
BlSetCookie ==
  <<"s", "e", "t", "-", "c", "o", "o", "k", "i", "e">>
BlProxyAuthorization ==
  <<"p", "r", "o", "x", "y", "-", "a", "u", "t", "h", "o", "r", "i",
    "z", "a", "t", "i", "o", "n">>
BlGoogAuthUser ==
  <<"x", "-", "g", "o", "o", "g", "-", "a", "u", "t", "h", "-", "u",
    "s", "e", "r">>
BlGoogIapJwt ==
  <<"x", "-", "g", "o", "o", "g", "-", "i", "a", "p", "-", "j", "w",
    "t", "-", "a", "s", "s", "e", "r", "t", "i", "o", "n">>
BlGoogApiKey ==
  <<"x", "-", "g", "o", "o", "g", "-", "a", "p", "i", "-", "k", "e",
    "y">>
BlApiKey ==
  <<"x", "-", "a", "p", "i", "-", "k", "e", "y">>

\* _preamble without the early return for a file that is renamed already.
PreambleRenamesAgain(st, summary) ==
  IF ~summary.some THEN st
  ELSE LET newpath == NamedPath(Prefix(Sanitize(summary.text), NameLimit))
           st1 == IF st.mode # "absent"
                  THEN [st EXCEPT !.file.path = newpath, !.path = newpath]
                  ELSE st
           st2 == IF st1.mode = "absent"
                  THEN [st1 EXCEPT !.file = [exists |-> TRUE, path |-> st1.path,
                                             lines |-> <<Template>>]]
                  ELSE st1
       IN [st2 EXCEPT !.mode = "renamed"]

\* _preamble without lines 134-136: the header is never written.
PreambleWithoutHeader(st, summary) ==
  IF st.mode = "renamed" \/ (st.mode = "preambled" /\ ~summary.some) THEN st
  ELSE LET newpath == NamedPath(Prefix(Sanitize(summary.text), NameLimit))
           st1 == IF st.mode = "preambled" /\ summary.some
                  THEN [st EXCEPT !.file.path = newpath, !.path = newpath]
                  ELSE st
       IN [st1 EXCEPT !.mode = IF summary.some THEN "renamed" ELSE "preambled"]

\* Log._preamble(summary) on st = [mode, path, file].
Preamble(st, summary) ==
  IF st.mode = "renamed" \/ (st.mode = "preambled" /\ ~summary.some) THEN st
  ELSE LET newpath == NamedPath(Prefix(Sanitize(summary.text), NameLimit))
           st1 == IF st.mode = "preambled" /\ summary.some
                  THEN [st EXCEPT !.file.path = newpath, !.path = newpath]
                  ELSE st
           st2 == IF st1.mode = "absent"
                  THEN [st1 EXCEPT !.file = [exists |-> TRUE, path |-> st1.path,
                                             lines |-> <<Template>>]]
                  ELSE st1
       IN [st2 EXCEPT !.mode = IF summary.some THEN "renamed" ELSE "preambled"]

\* k.lower()
LowerChar(c) ==
  IF \E i \in 34..59 : Ascii[i] = c
  THEN Ascii[(CHOOSE i \in 34..59 : Ascii[i] = c) + 32]
  ELSE c
Lower(s) == [i \in 1..Len(s) |-> LowerChar(s[i])]

Blocklist ==
  { BlAuthorization, BlCookie, BlSetCookie, BlProxyAuthorization,
    BlGoogAuthUser, BlGoogIapJwt, BlGoogApiKey, BlApiKey }

\* Headers are None or a mapping from names to values (texts).
Headers(h) == [some |-> TRUE, h |-> h]

\* _redact_headers comparing the names as given, not in lower case.
RedactHeadersExact(h) ==
  [k \in DOMAIN h |-> IF k \in Blocklist THEN Redacted ELSE h[k]]

\* Log._redact_headers(h)
RedactHeaders(h) ==
  [k \in DOMAIN h |-> IF Lower(k) \in Blocklist THEN Redacted ELSE h[k]]

\* x in c for a text x and a container c; ok = FALSE for a TypeError.
In(x, c) ==
  CASE c.t = "dict" -> [ok |-> TRUE, b |-> x \in DOMAIN c.v]
    [] c.t = "str" -> [ok |-> TRUE, b |-> Contains(c.v, x)]
    [] c.t = "list" -> [ok |-> TRUE, b |-> \E i \in 1..Len(c.v) : PyEq(c.v[i], JStr(x))]
    [] OTHER -> [ok |-> FALSE, b |-> FALSE]

\* The diff key without line 182: the system instruction is left out.
DiffKeyWithoutInstruction(label, endpoint, k) ==
  LET base == label \o <<":">> \o endpoint
      has == IF Truthy(k) THEN In(KSystemInstruction, k) ELSE [ok |-> TRUE, b |-> FALSE]
  IN IF ~has.ok THEN [ok |-> FALSE, key |-> base]
     ELSE IF has.b /\ k.t # "dict" THEN [ok |-> FALSE, key |-> base]
     ELSE [ok |-> TRUE, key |-> base]

\* The diff key of an exchange (lines 180-182).
DiffKey(label, endpoint, k) ==
  LET base == label \o <<":">> \o endpoint
      has == IF Truthy(k) THEN In(KSystemInstruction, k) ELSE [ok |-> TRUE, b |-> FALSE]
  IN IF ~has.ok THEN [ok |-> FALSE, key |-> base]
     ELSE IF ~has.b THEN [ok |-> TRUE, key |-> base]
     ELSE IF k.t # "dict" THEN [ok |-> FALSE, key |-> base]
     ELSE [ok |-> TRUE, key |-> base \o <<":">> \o dumps(k.v[KSystemInstruction])]

\* k['systemInstruction']['parts'][0]['text'] when every step is there.
InstructionText(k) ==
  LET si == IF k.t = "dict" THEN Get(k, KSystemInstruction, JNull) ELSE JNull
      sp == IF si.t = "dict" THEN Get(si, KParts, JNull) ELSE JNull
      s0 == IF sp.t = "list" /\ Len(sp.v) > 0 THEN sp.v[1] ELSE JNull
  IN IF s0.t = "dict" THEN Get(s0, KText, JNull) ELSE JNull

\* Lines 189-195: a systemInstruction shown as ["..."] in the request delta k1
\* is replaced by the start of its text.  [ok, value]; ok = FALSE for an
\* exception.
TouchUp(k, k1) ==
  IF ~(Truthy(k) /\ k1.t = "dict") THEN [ok |-> TRUE, value |-> k1]
  ELSE
   LET rk == IF KRequest \in DOMAIN k1.v THEN KRequest ELSE KStarRequest
       k2 == Get(k1, KRequest, Get(k1, KStarRequest, JDict(EmptyMap)))
   IN IF k2.t # "dict" THEN [ok |-> FALSE, value |-> k1]
      ELSE
       LET sk == IF KSystemInstruction \in DOMAIN k2.v
                 THEN KSystemInstruction ELSE KStarSystemInstruction
           k3 == Get(k2, KSystemInstruction, Get(k2, KStarSystemInstruction, JDict(EmptyMap)))
           has == In(KParts, k3)
       IN IF ~Truthy(k3) THEN [ok |-> TRUE, value |-> k1]
          ELSE IF ~has.ok THEN [ok |-> FALSE, value |-> k1]
          ELSE IF ~has.b THEN [ok |-> TRUE, value |-> k1]
          ELSE IF k3.t # "dict" THEN [ok |-> FALSE, value |-> k1]
          ELSE
           LET p == k3.v[KParts]
           IN IF p.t \in {"null", "int"} THEN [ok |-> FALSE, value |-> k1]
              ELSE IF p.t = "dict" THEN [ok |-> DOMAIN p.v = {}, value |-> k1]
              ELSE IF p.t = "str" \/ Len(p.v) = 0 THEN [ok |-> TRUE, value |-> k1]
              ELSE IF ~PyEq(p.v[1], Dots) THEN [ok |-> TRUE, value |-> k1]
              ELSE
               LET tx == InstructionText(k)
               IN IF tx.t # "str" THEN [ok |-> FALSE, value |-> k1]
                  ELSE
                   LET shown == JDict(Put(EmptyMap, KText,
                                  JStr(Prefix(tx.v, TouchUpLimit) \o <<".", ".", ".">>)))
                       p2 == JList([p.v EXCEPT ![1] = shown])
                       k3b == JDict(Put(k3.v, KParts, p2))
                       k2b == JDict(Put(k2.v, sk, k3b))
                   IN [ok |-> TRUE, value |-> JDict(Put(k1.v, rk, k2b))]

\* Lines 197-198: on the bookkeeping endpoint only the keys starting with
\* "+" or "-" are kept; items() fails on a request delta that is no mapping.
Bookkeeping(endpoint, request2) ==
  IF ~Contains(endpoint, UCTS) THEN [ok |-> TRUE, value |-> request2]
  ELSE IF request2.t # "dict" THEN [ok |-> FALSE, value |-> request2]
  ELSE LET marked == { j \in DOMAIN request2.v :
                         StartsWith(j, <<"+">>) \/ StartsWith(j, <<"-">>) }
       IN [ok |-> TRUE, value |-> JDict([j \in marked |-> request2.v[j]])]

\* A value that a record does not carry.
Absent == [t |-> "absent", v |-> 0]

\* Log.trace(label, endpoint, request, req_headers, response, resp_headers):
\* the Log after the call, and how the call ended.  The values the code
\* computes once (summary, key, the two deltas, the touched-up and the
\* filtered request) are each drawn from a one-element set.
TraceResult(label, endpoint, request, req_headers, response, resp_headers) ==
  LET st0 == [mode |-> mode, path |-> path, file |-> file]
  IN
  IF ~verbose /\ ~Contains(endpoint, SGC)
  THEN [st |-> st0, prev_log |-> prev_log, outcome |-> "dropped", summary |-> NoSummary]
  ELSE
   LET request2 == pretty(request)
       response2 == pretty(response)
       k == IF request2.t = "dict" /\ KRequest \in DOMAIN request2.v
            THEN request2.v[KRequest] ELSE JNull
   IN
   CHOOSE result \in
     { LET st == Preamble(st0, summary)
           key == dk.key
           known == key \in DOMAIN prev_log
           log2 == Put(prev_log, key, [req |-> request2, resp |-> response2])
           failed == [st |-> st, prev_log |-> log2, outcome |-> "raised", summary |-> summary]
       IN IF ~dk.ok
          THEN [st |-> st, prev_log |-> prev_log, outcome |-> "raised", summary |-> summary]
          ELSE
           CHOOSE traced \in
             { IF ~dreq.ok \/ ~dresp.ok THEN failed
               ELSE
                CHOOSE written2 \in
                  { IF ~kept.ok THEN failed
                    ELSE
                     LET d == [label |-> label, endpoint |-> endpoint,
                               request |-> IF kept.value.t = "null" THEN Absent
                                           ELSE kept.value,
                               req_headers |-> IF req_headers.some
                                               THEN Headers(RedactHeaders(req_headers.h))
                                               ELSE NoHeaders,
                               response |-> IF dresp.delta.t = "null" THEN Absent
                                            ELSE dresp.delta,
                               resp_headers |-> IF resp_headers.some
                                                THEN Headers(RedactHeaders(resp_headers.h))
                                                ELSE NoHeaders]
                         appended == IF st.file.exists /\ st.file.path = st.path
                                     THEN [st.file EXCEPT !.lines = Append(@, d)]
                                     ELSE [exists |-> TRUE, path |-> st.path, lines |-> <<d>>]
                     IN [st |-> [st EXCEPT !.file = appended], prev_log |-> log2,
                         outcome |-> "returned", summary |-> summary] :
                      kept \in { IF touched.ok THEN Bookkeeping(endpoint, touched.value)
                                 ELSE touched :
                                   touched \in {TouchUp(k, dreq.delta)} } } : TRUE :
                 dreq \in { IF known THEN delta(prev_log[key].req, request2)
                            ELSE Returned(TRUE, request2) },
                 dresp \in { IF known THEN delta(prev_log[key].resp, response2)
                             ELSE Returned(TRUE, response2) } } : TRUE :
         summary \in {DetectSummary(endpoint, k, response2)},
         dk \in {DiffKey(label, endpoint, k)} } : TRUE

(***************************************************************************)
(* Log.trace on bounded inputs.  SpecLog makes up to MaxCalls calls of     *)
(* Log.trace on one Log, each on one of the exchanges below.               *)
(***************************************************************************)
MaxCalls == 3

Dict1(k, x) == JDict(Put(EmptyMap, k, x))
TextPart(s) == Dict1(KText, JStr(s))
Content(s) == Dict1(KParts, JList(<<TextPart(s)>>))

\* One streamed event of a response carrying a text.
Event(s) == Dict1(KResponse, Dict1(KCandidates, JList(<<Dict1(KContent, Content(s))>>)))

SystemInstruction == Dict1(KParts, JList(<<JDict(Put(EmptyMap, KText, LongText))>>))

TitleRequest == Dict1(KRequest, Dict1(KContents, JList(<<Content(TitlePrompt)>>)))
ChatRequest(contents) ==
  Dict1(KRequest, JDict(Put(Put(EmptyMap, KContents, JList(contents)),
                            KSystemInstruction, SystemInstruction)))

ClientHeaders == Headers(Put(Put(EmptyMap, HAuthorization, BearerXyz), HAccept, <<"a">>))
ServerHeaders == Headers(Put(EmptyMap, HSetCookie, <<"s">>))

Exchange(label, endpoint, request, req_headers, response, resp_headers) ==
  [label |-> label, endpoint |-> endpoint, request |-> request,
   req_headers |-> req_headers, response |-> response, resp_headers |-> resp_headers]

Exchanges ==
  { \* the title exchange: the response streams "a/" and "b."
    Exchange(LabelCloud, SGC, JsonPayload(TitleRequest), ClientHeaders,
             SsePayload(<<Event(<<"a", "/">>), Event(<<"b", ".">>)>>), ServerHeaders),
    \* a later title exchange: the response streams "c"
    Exchange(LabelCloud, SGC, JsonPayload(TitleRequest), ClientHeaders,
             SsePayload(<<Event(<<"c">>)>>), ServerHeaders),
    \* a title request answered with no text
    Exchange(LabelCloud, SGC, JsonPayload(TitleRequest), ClientHeaders,
             JsonPayload(JDict(EmptyMap)), ServerHeaders),
    \* two turns of a conversation under one system instruction
    Exchange(LabelCloud, SGC, JsonPayload(ChatRequest(<<Content(<<"h", "i">>)>>)), ClientHeaders,
             SsePayload(<<Event(<<"y", "o">>)>>), ServerHeaders),
    Exchange(LabelCloud, SGC,
             JsonPayload(ChatRequest(<<Content(<<"h", "i">>), Content(<<"y", "o">>)>>)),
             ClientHeaders, SsePayload(<<Event(<<"o", "k">>)>>), ServerHeaders),
    \* a request of that conversation whose contents are empty
    Exchange(LabelCloud, SGC, JsonPayload(ChatRequest(<<>>)), ClientHeaders,
             JsonPayload(JDict(EmptyMap)), ServerHeaders),
    \* a request whose body is the JSON text null
    Exchange(LabelExtension, EpOther, JsonPayload(JNull), ClientHeaders,
             JsonPayload(Dict1(<<"a">>, JInt(1))), ServerHeaders),
    \* the bookkeeping endpoint, with a mapping and with a sequence as body
    Exchange(LabelExtension, UCTS, JsonPayload(Dict1(<<"a">>, JInt(1))), ClientHeaders,
             JsonPayload(JDict(EmptyMap)), ServerHeaders),
    Exchange(LabelExtension, UCTS, JsonPayload(JList(<<>>)), ClientHeaders,
             JsonPayload(JDict(EmptyMap)), ServerHeaders),
    \* the child's output and the tool's input
    Exchange(LabelStdio, EpStdout, NoPayload, NoHeaders,
             JsonPayload(Dict1(<<"k">>, JList(<<JInt(1)>>))), NoHeaders),
    Exchange(LabelStdio, EpStdout, NoPayload, NoHeaders,
             JsonPayload(Dict1(<<"k">>, JList(<<>>))), NoHeaders),
    Exchange(LabelStdio, EpStdout, NoPayload, NoHeaders, JsonPayload(JNull), NoHeaders),
    Exchange(LabelStdio, EpStdin, TextPayload(<<"h", "i">>), NoHeaders, NoPayload, NoHeaders) }

\* What a diff key is made from: the label, the endpoint and, when the
\* request has one, its system instruction.
RequestOf(e) ==
  LET request2 == pretty(e.request)
  IN IF request2.t = "dict" /\ KRequest \in DOMAIN request2.v
     THEN request2.v[KRequest] ELSE JNull
MadeFrom(e) ==
  LET k == RequestOf(e)
  IN [label |-> e.label, endpoint |-> e.endpoint,
      instruction |-> IF k.t = "dict" /\ KSystemInstruction \in DOMAIN k.v
                      THEN [some |-> TRUE, v |-> k.v[KSystemInstruction]]
                      ELSE [some |-> FALSE, v |-> JNull]]

\* The record of the latest calls after a call on e that ended as outcome: a
\* call that is dropped (line 159), or fails before it has a key (line 181),
\* stores nothing.
Remember(e, outcome) ==
  IF outcome = "dropped" \/ ~DiffKey(e.label, e.endpoint, RequestOf(e)).ok
  THEN recent
  ELSE Put(recent, MadeFrom(e),
           [req |-> pretty(e.request), resp |-> pretty(e.response)])

InitLog ==
  /\ verbose \in BOOLEAN /\ LogFresh
  /\ DeltaIdle /\ ListIdle /\ RelayIdle /\ XIdle

\* One call of Log.trace.
Trace ==
  /\ ncalls < MaxCalls
  /\ \E e \in Exchanges :
       \E r \in { TraceResult(e.label, e.endpoint, e.request, e.req_headers,
                              e.response, e.resp_headers) } :
          /\ mode' = r.st.mode
          /\ path' = r.st.path
          /\ file' = r.st.file
          /\ prev_log' = r.prev_log
          /\ lastCall' = [outcome |-> r.outcome, summary |-> r.summary,
                          modeBefore |-> mode,
                          first |-> r.summary.some /\ ~firstSummary.some,
                          exchange |-> e,
                          before |-> [path |-> path, file |-> file,
                                      prev_log |-> prev_log]]
          /\ firstSummary' = IF firstSummary.some THEN firstSummary ELSE r.summary
          /\ recent' = Remember(e, r.outcome)
  /\ ncalls' = ncalls + 1
  /\ UNCHANGED <<xvars, verbose, dvars, lvars, rvars>>

NextLog == Trace

SpecLog == InitLog /\ [][NextLog]_vars

\* C1: the first call that carries a detected summary leaves the trace file
\* under the name made of the sanitized summary, whether the file was absent
\* or preambled when the call arrived.
C1_FirstSummaryNamesFile ==
  lastCall.first =>
    /\ file.exists
    /\ file.path = NamedPath(Prefix(Sanitize(lastCall.summary.text), NameLimit))

\* C1 for a file that was already preambled when the call arrived: it is
\* renamed, and the name is the sanitized summary, not the summary as given.
C1_PreambledFileRenamed ==
  (lastCall.first /\ lastCall.modeBefore = "preambled") =>
    /\ file.exists
    /\ file.path = NamedPath(Prefix(Sanitize(lastCall.summary.text), NameLimit))
    /\ file.path # NamedPath(lastCall.summary.text)

\* The latest call of Log.trace as the claims below read it: its normalized
\* request and response, the request under 'request' (k), its diff key, and
\* the record it appended.
LastRequest2 == pretty(lastCall.exchange.request)
LastResponse2 == pretty(lastCall.exchange.response)
LastK ==
  IF LastRequest2.t = "dict" /\ KRequest \in DOMAIN LastRequest2.v
  THEN LastRequest2.v[KRequest] ELSE JNull
LastKey == DiffKey(lastCall.exchange.label, lastCall.exchange.endpoint, LastK)
Called == lastCall.outcome # "none"
Records(f) == Len(SelectSeq(f.lines, LAMBDA l : l # Template))
AppendedOne == file.exists /\ Records(file) = Records(lastCall.before.file) + 1
LastRecord == file.lines[Len(file.lines)]
Streaming == Contains(lastCall.exchange.endpoint, SGC)

\* C11: every call of Log.trace, a dropped one included, leaves the state
\* stored under the call's diff key equal to the call's normalized request
\* and response.
C11_EveryCallUpdatesState ==
  (Called /\ LastKey.ok) =>
    /\ LastKey.key \in DOMAIN prev_log
    /\ prev_log[LastKey.key] = [req |-> LastRequest2, resp |-> LastResponse2]

\* C11 for the calls that are not dropped: the state is updated, also when
\* the call fails later on (in delta or in the filter of the request).
C11_TracedCallUpdatesState ==
  (Called /\ lastCall.outcome # "dropped" /\ LastKey.ok) =>
    /\ LastKey.key \in DOMAIN prev_log
    /\ prev_log[LastKey.key] = [req |-> LastRequest2, resp |-> LastResponse2]

\* C12: with verbosity off a call appends a record iff its endpoint is the
\* streaming-generation endpoint, and a dropped call leaves mode, path and
\* file as they were (no file is created).
C12_RecordIffStreaming ==
  (Called /\ ~verbose) =>
    /\ AppendedOne <=> Streaming
    /\ lastCall.outcome = "dropped" =>
         /\ mode = lastCall.modeBefore
         /\ path = lastCall.before.path
         /\ file = lastCall.before.file

\* C12 without the calls that fail: a call that returns appends a record iff
\* its endpoint is the streaming-generation endpoint, and the calls on other
\* endpoints are dropped and leave mode, path and file as they were.
C12_DroppedLeavesFileUntouched ==
  (Called /\ ~verbose) =>
    /\ lastCall.outcome = "dropped" <=> ~Streaming
    /\ lastCall.outcome = "returned" => AppendedOne
    /\ lastCall.outcome = "dropped" =>
         /\ mode = lastCall.modeBefore
         /\ path = lastCall.before.path
         /\ file = lastCall.before.file

\* The headers hs of a record and the headers given to the call: the same
\* names, the values of the blocklisted names replaced by the marker and so
\* different from the values given, the other values kept.
RedactedFrom(hs, given) ==
  /\ hs.some = given.some
  /\ DOMAIN hs.h = DOMAIN given.h
  /\ \A name \in DOMAIN given.h :
       IF Lower(name) \in Blocklist
       THEN hs.h[name] = Redacted /\ hs.h[name] # given.h[name]
       ELSE hs.h[name] = given.h[name]

\* C13: in every record written, each header on the blocklist (compared in
\* lower case) keeps its name and carries the redaction marker in place of its
\* value, and every other header keeps its value.
C13_HeadersRedacted ==
  lastCall.outcome = "returned" =>
    /\ RedactedFrom(LastRecord.req_headers, lastCall.exchange.req_headers)
    /\ RedactedFrom(LastRecord.resp_headers, lastCall.exchange.resp_headers)

\* A record written from 'Authorization: Bearer xyz', 'Accept: a' and
\* 'Set-Cookie: s'.
C13_Witness ==
  /\ lastCall.outcome = "returned"
  /\ lastCall.exchange.req_headers = ClientHeaders
  /\ lastCall.exchange.resp_headers = ServerHeaders
  /\ LastRecord.req_headers.h[HAuthorization] = Redacted
  /\ LastRecord.req_headers.h[HAccept] = <<"a">>
  /\ LastRecord.resp_headers.h[HSetCookie] = Redacted

\* C14: the path changes only in a call that finds the mode preambled and
\* leaves it renamed, and a call that finds the mode renamed leaves mode and
\* path as they are: the file is renamed at most once.
C14_RenamedOnceAndTerminal ==
  Called =>
    /\ lastCall.modeBefore = "renamed" =>
         mode = "renamed" /\ path = lastCall.before.path
    /\ path # lastCall.before.path =>
         lastCall.modeBefore = "preambled" /\ mode = "renamed"
    /\ file.exists => file.path = path

\* A call that detects a summary other than the first one arrives at a Log
\* that is renamed already, and appends its record.
C14_Witness ==
  /\ lastCall.outcome = "returned"
  /\ lastCall.modeBefore = "renamed"
  /\ lastCall.summary.some
  /\ lastCall.summary # firstSummary
  /\ path.named

\* C17: every record written carries a request body or a response body,
\* request headers only with a request body and response headers only with a
\* response body.
C17_BodiesAndHeaders ==
  lastCall.outcome = "returned" =>
    /\ LastRecord.request # Absent \/ LastRecord.response # Absent
    /\ LastRecord.req_headers.some => LastRecord.request # Absent
    /\ LastRecord.resp_headers.some => LastRecord.response # Absent

\* C17 for the calls whose payloads do not normalize to None.
C17_BodiesOtherThanNull ==
  (/\ lastCall.outcome = "returned"
   /\ (lastCall.exchange.request.kind # "none" => LastRequest2 # JNull)
   /\ (lastCall.exchange.response.kind # "none" => LastResponse2 # JNull)) =>
    /\ LastRecord.request # Absent \/ LastRecord.response # Absent
    /\ LastRecord.req_headers.some => LastRecord.request # Absent
    /\ LastRecord.resp_headers.some => LastRecord.response # Absent

\* The diff key made from a label, an endpoint and an instruction.
KeyMadeFrom(m) ==
  DiffKey(m.label, m.endpoint,
          IF m.instruction.some THEN Dict1(KSystemInstruction, m.instruction.v)
          ELSE JNull).key

\* What the record of the latest call shows for a normalized value new, the
\* state before the call holding was for its key (or nothing: known is
\* false): the delta of was and new, None left out.
Against(known, was, new) ==
  CHOOSE shown \in { IF d.delta.t = "null" THEN Absent ELSE d.delta :
                       d \in { IF known THEN delta(was, new)
                               ELSE Returned(TRUE, new) } } : TRUE
RequestAgainst(known, was, new) ==
  CHOOSE shown \in
    { IF kept.value.t = "null" THEN Absent ELSE kept.value :
        kept \in { Bookkeeping(lastCall.exchange.endpoint, touched.value) :
                     touched \in { TouchUp(LastK, d.delta) :
                        d \in { IF known THEN delta(was, new)
                                ELSE Returned(TRUE, new) } } } } : TRUE

\* C21: the state stored under a diff key is the normalized request and
\* response of the latest call, not dropped, made with the label, endpoint
\* and system instruction the key is made from, and nothing else is stored;
\* a call leaves the state of every other key as it was, and its record
\* shows the deltas against the state its own key had before the call.
C21_StatePerKey ==
  /\ \A m \in DOMAIN recent :
       /\ KeyMadeFrom(m) \in DOMAIN prev_log
       /\ prev_log[KeyMadeFrom(m)] = recent[m]
  /\ DOMAIN prev_log = { KeyMadeFrom(m) : m \in DOMAIN recent }
  /\ Called =>
       \E was \in {lastCall.before.prev_log} :
         IF lastCall.outcome = "dropped" \/ ~LastKey.ok
         THEN prev_log = was
         ELSE /\ DOMAIN prev_log = DOMAIN was \cup {LastKey.key}
              /\ \A key \in DOMAIN was \ {LastKey.key} : prev_log[key] = was[key]
              /\ lastCall.outcome = "returned" =>
                   \E known \in {LastKey.key \in DOMAIN was} :
                     \E old \in {IF known THEN was[LastKey.key]
                                  ELSE [req |-> JNull, resp |-> JNull]} :
                       /\ LastRecord.request
                            = RequestAgainst(known, old.req, LastRequest2)
                       /\ LastRecord.response
                            = Against(known, old.resp, LastResponse2)

\* The third call is the second turn of a conversation: the state of its key
\* is replaced and its record shows a delta, while a title exchange on the
\* same endpoint, made in between, keeps its own state.
C21_Witness ==
  /\ lastCall.outcome = "returned"
  /\ LastKey.ok
  /\ LastKey.key \in DOMAIN lastCall.before.prev_log
  /\ prev_log[LastKey.key] # lastCall.before.prev_log[LastKey.key]
  /\ LastRecord.request # LastRequest2
  /\ \E m1, m2 \in DOMAIN recent :
       /\ m1.label = m2.label /\ m1.endpoint = m2.endpoint
       /\ m1.instruction.some /\ ~m2.instruction.some
       /\ KeyMadeFrom(m1) = LastKey.key

\* The file after the latest call is the file before it with at most one
\* line more.
KeepsLines(before, after) ==
  /\ Len(after.lines) \in {Len(before.lines), Len(before.lines) + 1}
  /\ SubSeq(after.lines, 1, Len(before.lines)) = before.lines

\* C22: the file is absent with nothing written (the mode is absent), or it
\* is at the current path and starts with the header, followed by records
\* only; the header is written by the first call that is not dropped, before
\* the record of that call, and a later call only appends its record.
C22_HeaderOnceThenRecords ==
  /\ IF file.exists
     THEN /\ mode # "absent"
          /\ file.path = path
          /\ file.lines[1] = Template
          /\ \A i \in 2..Len(file.lines) : file.lines[i] # Template
     ELSE mode = "absent" /\ file = NoFile
  /\ Called =>
       \E before \in {lastCall.before.file} :
         /\ lastCall.outcome = "dropped" => file = before
         /\ (lastCall.outcome # "dropped" /\ ~before.exists) =>
              /\ file.exists
              /\ Len(file.lines) = IF lastCall.outcome = "returned" THEN 2 ELSE 1
         /\ before.exists => file.exists /\ KeepsLines(before, file)
         /\ lastCall.outcome = "returned" =>
              Len(file.lines) = Len(before.lines) + (IF before.exists THEN 1 ELSE 2)

\* With verbosity off the first call is dropped and leaves no file; the
\* second call writes the header and its record.
C22_Witness ==
  /\ ~verbose /\ ncalls = 2
  /\ lastCall.before.file = NoFile
  /\ lastCall.outcome = "returned"
  /\ Len(file.lines) = 2
  /\ file.lines[1] = Template /\ file.lines[2] = LastRecord
  /\ LastRecord # Template

(***************************************************************************)
(* shim: the relay of the child's stdio.  SpecRelay starts where shim has  *)
(* created the child and the three relay tasks and waits for the child to  *)
(* exit.  A step of a task runs from one await to the next, as the event   *)
(* loop runs it.                                                           *)
(***************************************************************************)
\* The child writes at most MaxChunks chunks in all; the tool reads at most
\* MaxInput chunks from its stdin.
MaxChunks == 2
MaxInput == 1

\* What the child writes and the tool reads: "w" stands for a line that
\* holds one of the too_wordy phrases.
Chunks == {"a", "w"}
too_wordy(chunk) == chunk = "w"

\* The child's exit codes, and the code of the __main__ handler.
ReturnCodes == {0, 3}
ErrorCode == 1

\* pump_output calls log.trace on every chunk but the wordy ones of stderr.
Traced(s, chunk) == ~(s = "stderr" /\ too_wordy(chunk))

\* How log.trace("STDIO", ...) can end: with verbose off the call returns at
\* its first statement; with verbose on it goes on to delta and to the file.
StdioTrace == IF verbose THEN {"returned", "raised"} ELSE {"returned"}

Pending == {"waiting", "cancelling"}
Failed == {"TraceError", "ConnectionResetError"}

InitRelay ==
  /\ verbose \in BOOLEAN /\ LogFresh
  /\ DeltaIdle /\ ListIdle /\ XIdle
  /\ proc = [state |-> "running", returncode |-> 0]
  /\ written = [s \in Streams |-> <<>>]
  /\ buffered = [s \in Streams |-> <<>>]
  /\ relayed = [s \in Streams |-> <<>>]
  /\ broken = [s \in Streams |-> FALSE]
  /\ task = [t \in Tasks |-> "waiting"]
  /\ thread = [state |-> "reading", chunk |-> ""]
  /\ ninput = 0
  /\ childIn = [open |-> TRUE, closed |-> FALSE, received |-> <<>>]
  /\ mainpc = "wait"
  /\ exit = [exited |-> FALSE, code |-> 0]

\* The child writes a chunk to its stdout or stderr.
ChildWrite ==
  /\ proc.state = "running"
  /\ \E s \in Streams, c \in Chunks :
       /\ Len(written["stdout"]) + Len(written["stderr"]) < MaxChunks
       /\ written' = [written EXCEPT ![s] = Append(@, c)]
       /\ buffered' = [buffered EXCEPT ![s] = Append(@, c)]
  /\ UNCHANGED <<xvars, proc, relayed, broken, task, thread, ninput, childIn,
                 mainpc, exit, dvars, lvars, gvars>>

\* The child closes its stdin.
ChildCloseStdin ==
  /\ proc.state = "running" /\ childIn.open
  /\ childIn' = [childIn EXCEPT !.open = FALSE]
  /\ UNCHANGED <<xvars, proc, written, buffered, relayed, broken, task, thread,
                 ninput, mainpc, exit, dvars, lvars, gvars>>

\* The child exits: its ends of the three pipes close.
ChildExit ==
  /\ proc.state = "running"
  /\ \E rc \in ReturnCodes : proc' = [state |-> "exited", returncode |-> rc]
  /\ childIn' = [childIn EXCEPT !.open = FALSE]
  /\ UNCHANGED <<xvars, written, buffered, relayed, broken, task, thread, ninput,
                 mainpc, exit, dvars, lvars, gvars>>

\* The reader of the tool's stdout or stderr goes away.
BreakOutput ==
  /\ ~exit.exited
  /\ \E s \in Streams : ~broken[s] /\ broken' = [broken EXCEPT ![s] = TRUE]
  /\ UNCHANGED <<xvars, proc, written, buffered, relayed, task, thread, ninput,
                 childIn, mainpc, exit, dvars, lvars, gvars>>

\* The blocked read of the tool's stdin returns a chunk or the end of input.
StdinArrives ==
  /\ thread.state = "reading"
  /\ \/ /\ ninput < MaxInput
        /\ \E c \in Chunks : thread' = [state |-> "returned", chunk |-> c]
        /\ ninput' = ninput + 1
     \/ /\ thread' = [state |-> "returned", chunk |-> ""]
        /\ ninput' = ninput
  /\ UNCHANGED <<xvars, proc, written, buffered, relayed, broken, task, childIn,
                 mainpc, exit, dvars, lvars, gvars>>

\* pump_output(reader, writer, s) from the return of reader.read to the next
\* read that has to wait: the chunks at hand are handled one after the other,
\* n of them are written, and the run ends
\*   "blocked"  at a read with nothing to read,
\*   "eof"      at a read that returns no chunk (break),
\*   "raised"   in log.trace on the next chunk,
\*   "broken"   in writer.write on the next chunk (BrokenPipeError, break).
PumpOutput(s) ==
  /\ task[s] = "waiting"
  /\ buffered[s] # <<>> \/ proc.state = "exited"
  /\ \E n \in 0..Len(buffered[s]), how \in {"blocked", "eof", "raised", "broken"} :
       /\ broken[s] => n = 0
       /\ how = "blocked" => n = Len(buffered[s]) /\ proc.state = "running"
       /\ how = "eof" => n = Len(buffered[s]) /\ proc.state = "exited"
       /\ how = "raised" => /\ n < Len(buffered[s])
                            /\ Traced(s, buffered[s][n + 1])
                            /\ "raised" \in StdioTrace
       /\ how = "broken" => n < Len(buffered[s]) /\ broken[s]
       /\ relayed' = [relayed EXCEPT ![s] = @ \o SubSeq(buffered[s], 1, n)]
       /\ buffered' = [buffered EXCEPT ![s] = SubSeq(@, n + 2, Len(@))]
       /\ task' = [task EXCEPT ![s] =
                     CASE how = "blocked" -> "waiting"
                       [] how = "raised" -> "TraceError"
                       [] OTHER -> "done"]
  /\ UNCHANGED <<xvars, proc, written, broken, thread, ninput, childIn, mainpc,
                 exit, dvars, lvars, gvars>>

PumpStdout == PumpOutput("stdout")
PumpStderr == PumpOutput("stderr")

\* pump_input from the return of the read in the thread to the next read:
\* the end of input ends the loop; a chunk is traced, written to the child's
\* stdin and drained.  The finally clause closes the child's stdin.
PumpInput ==
  /\ task["stdin"] = "waiting" /\ thread.state = "returned"
  /\ \/ /\ thread.chunk = ""
        /\ task' = [task EXCEPT !["stdin"] = "done"]
        /\ childIn' = [childIn EXCEPT !.closed = TRUE]
        /\ thread' = [state |-> "idle", chunk |-> ""]
     \/ /\ thread.chunk # ""
        /\ "raised" \in StdioTrace
        /\ task' = [task EXCEPT !["stdin"] = "TraceError"]
        /\ childIn' = [childIn EXCEPT !.closed = TRUE]
        /\ thread' = [state |-> "idle", chunk |-> ""]
     \/ /\ thread.chunk # ""
        /\ IF childIn.open
           THEN /\ childIn' = [childIn EXCEPT !.received = Append(@, thread.chunk)]
                /\ task' = task
                /\ thread' = [state |-> "reading", chunk |-> ""]
           ELSE /\ childIn' = [childIn EXCEPT !.closed = TRUE]
                /\ task' = [task EXCEPT !["stdin"] = "ConnectionResetError"]
                /\ thread' = [state |-> "idle", chunk |-> ""]
  /\ UNCHANGED <<xvars, proc, written, buffered, relayed, broken, ninput, mainpc,
                 exit, dvars, lvars, gvars>>

\* A task that was cancelled while it waited gets CancelledError at its
\* await; pump_input runs its finally clause.
Cancelled ==
  /\ \E t \in Tasks :
       /\ task[t] = "cancelling"
       /\ task' = [task EXCEPT ![t] = "cancelled"]
       /\ childIn' = IF t = "stdin" THEN [childIn EXCEPT !.closed = TRUE] ELSE childIn
       /\ thread' = IF t = "stdin" /\ thread.state = "returned"
                    THEN [state |-> "idle", chunk |-> ""] ELSE thread
  /\ UNCHANGED <<xvars, proc, written, buffered, relayed, broken, ninput, mainpc,
                 exit, dvars, lvars, gvars>>

\* proc.wait() returns and the three tasks are cancelled.  wait() returns at
\* once when the exit of the child is known at the call, and is woken at the
\* exit or after the pipes are disconnected otherwise, so the relays may or
\* may not have run to their end before.
MainWait ==
  /\ mainpc = "wait" /\ proc.state = "exited"
  /\ task' = [t \in Tasks |-> IF task[t] = "waiting" THEN "cancelling" ELSE task[t]]
  /\ mainpc' = "stdout"
  /\ UNCHANGED <<xvars, proc, written, buffered, relayed, broken, thread, ninput,
                 childIn, exit, dvars, lvars, gvars>>

AfterAwait(t) ==
  CASE t = "stdout" -> "stderr"
    [] t = "stderr" -> "stdin"
    [] t = "stdin" -> "cleanup"

\* await stdout; await stderr; await stdin under suppress(CancelledError):
\* the await of a task returns when the task is done, leaves the block when
\* the task is cancelled and raises the exception the task ended with.
MainAwait ==
  /\ mainpc \in Tasks
  /\ task[mainpc] \notin Pending
  /\ mainpc' = CASE task[mainpc] = "done" -> AfterAwait(mainpc)
                 [] task[mainpc] = "cancelled" -> "cleanup"
                 [] task[mainpc] \in Failed -> "error"
  /\ UNCHANGED <<xvars, proc, written, buffered, relayed, broken, task, thread,
                 ninput, childIn, exit, dvars, lvars, gvars>>

\* The four cleanups, then sys.exit(returncode).
MainCleanup ==
  /\ mainpc = "cleanup"
  /\ mainpc' = "sys.exit"
  /\ UNCHANGED <<xvars, proc, written, buffered, relayed, broken, task, thread,
                 ninput, childIn, exit, dvars, lvars, gvars>>

\* asyncio.run ends: the tasks left are cancelled, the thread of the stdin
\* read is joined, and the process exits with returncode, or with 1 from the
\* handler of __main__ when shim ended with an exception.
Exit ==
  /\ mainpc \in {"sys.exit", "error"}
  /\ thread.state # "reading"
  /\ task' = [t \in Tasks |-> IF task[t] \in Pending THEN "cancelled" ELSE task[t]]
  /\ exit' = [exited |-> TRUE,
              code |-> IF mainpc = "sys.exit" THEN proc.returncode ELSE ErrorCode]
  /\ mainpc' = "exited"
  /\ UNCHANGED <<xvars, proc, written, buffered, relayed, broken, thread, ninput,
                 childIn, dvars, lvars, gvars>>

NextRelay ==
  \/ ChildWrite \/ ChildCloseStdin \/ ChildExit \/ BreakOutput \/ StdinArrives
  \/ PumpStdout \/ PumpStderr \/ PumpInput \/ Cancelled
  \/ MainWait \/ MainAwait \/ MainCleanup \/ Exit

SpecRelay == InitRelay /\ [][NextRelay]_vars

\* C2: a failure inside Log.trace never ends a relay loop: no relay task ends
\* with the exception of a trace call.
C2_TraceFailureKeepsRelaying == \A t \in Tasks : task[t] # "TraceError"

\* C2, the chunk in hand: every chunk a relay has taken from the child is
\* written to the tool's output while that output is open.
C2_ChunkInHandWritten ==
  \A s \in Streams :
    ~broken[s] => Len(relayed[s]) + Len(buffered[s]) = Len(written[s])

\* C4: when the tool has exited, what it wrote to its stdout (stderr) is what
\* the child wrote to its stdout (stderr), as long as that output stayed open.
C4_OutputRelayedInFull ==
  exit.exited => \A s \in Streams : ~broken[s] => relayed[s] = written[s]

\* C4 with tracing that cannot fail (verbose off): nothing is lost when the
\* relay tasks are cancelled.
C4_NothingLostAtCancel ==
  (exit.exited /\ ~verbose) => \A s \in Streams : ~broken[s] => relayed[s] = written[s]

\* C5: the tool exits with the exit code of the child.
C5_ExitCodeOfChild == exit.exited => exit.code = proc.returncode

\* C5 with tracing that cannot fail (verbose off): the input relay that
\* ended with a broken pipe.
C5_ExitCodeAfterBrokenPipe ==
  (exit.exited /\ ~verbose) => exit.code = proc.returncode

(***************************************************************************)
(* pretty_proto on bounded inputs.  SpecProto encodes up to MaxFields      *)
(* fields, cuts the buffer after pcut bytes and decodes what is left.      *)
(***************************************************************************)
MaxFields == 2

\* A field to encode: its number, its wire type, its integer or its bytes,
\* and the value encoded as the decoder is to show it.
Varint(field, n) ==
  [field |-> field, wire |-> 0, n |-> n, bytes |-> <<>>, shown |-> JInt(n)]
Fixed64(field, n) ==
  [field |-> field, wire |-> 1, n |-> n, bytes |-> <<>>, shown |-> JInt(n)]
Fixed32(field, n) ==
  [field |-> field, wire |-> 5, n |-> n, bytes |-> <<>>, shown |-> JInt(n)]
Blob(field, bytes, shown) ==
  [field |-> field, wire |-> 2, n |-> 0, bytes |-> bytes, shown |-> shown]

\* The encoder of the wire format: base-128 integers with the low groups
\* first, fixed integers with the low bytes first, blobs after their length.
RECURSIVE EncodeVarint(_)
EncodeVarint(n) ==
  IF n < 128 THEN <<n>> ELSE <<128 + (n % 128)>> \o EncodeVarint(n \div 128)

RECURSIVE LittleEndian(_, _)
LittleEndian(n, size) ==
  IF size = 0 THEN <<>> ELSE <<n % 256>> \o LittleEndian(n \div 256, size - 1)

EncodeField(f) ==
  EncodeVarint(f.field * 8 + f.wire) \o
  CASE f.wire = 0 -> EncodeVarint(f.n)
    [] f.wire = 1 -> LittleEndian(f.n, 8)
    [] f.wire = 2 -> EncodeVarint(Len(f.bytes)) \o f.bytes
    [] f.wire = 5 -> LittleEndian(f.n, 4)

RECURSIVE Encode(_)
Encode(fields) ==
  IF fields = <<>> THEN <<>> ELSE EncodeField(Head(fields)) \o Encode(Tail(fields))

\* The fields drawn: integers of one and of two bytes under field numbers of
\* one and of two bytes, fixed integers, and blobs that hold nothing, a
\* text, bytes that are no text, and messages.
Hi == <<104, 105>>
HiAndOne == JList(<<JStr(<<"h", "i">>), JInt(1)>>)
FieldUniverse ==
  { Varint(1, 5),
    Varint(16, 300),
    Fixed64(1, 1),
    Fixed32(1, 2),
    Blob(1, <<>>, JList(<<>>)),
    Blob(1, Hi, JStr(<<"h", "i">>)),
    Blob(1, <<128>>, JStr(<<"8", "0">>)),
    Blob(1, Encode(<<Varint(1, 5), Varint(2, 7)>>), JList(<<JInt(5), JInt(7)>>)),
    Blob(1, Encode(<<Varint(1, 5)>>), JList(<<JInt(5)>>)),
    Blob(1, Encode(<<Blob(1, Hi, JNull), Varint(1, 1)>>), HiAndOne) }

Messages == UNION { [1..n -> FieldUniverse] : n \in 0..MaxFields }

\* The buffer given to pretty_proto.
Encoded == Encode(pfields)
Buffer == SubSeq(Encoded, 1, pcut)

InitProto ==
  /\ ppc = "call"
  /\ pfields \in Messages
  /\ pcut \in 0..Len(Encode(pfields))
  /\ pres = [ok |-> FALSE, err |-> "", value |-> JNull, pos |-> 0]
  /\ DeltaIdle /\ ListIdle /\ LogIdle /\ RelayIdle /\ StartIdle
  /\ ProxyIdle /\ ConcIdle

CallPrettyProto ==
  /\ ppc = "call"
  /\ pres' = pretty_proto(Buffer)
  /\ ppc' = "done"
  /\ UNCHANGED <<pfields, pcut, dvars, lvars, gvars, rvars, svars, hvars, cvars>>

NextProto == CallPrettyProto

SpecProto == InitProto /\ [][NextProto]_vars

\* The values encoded, one per field in order.
Shown == JList([i \in 1..Len(pfields) |-> pfields[i].shown])

\* The positions of Encoded at which a field ends.
Boundaries == { Len(Encode(SubSeq(pfields, 1, j))) : j \in 0..Len(pfields) }

\* The number of fields that Buffer holds in full, and their values.
FieldsInFull == Cardinality({ j \in 1..Len(pfields) :
                               Len(Encode(SubSeq(pfields, 1, j))) <= pcut })
ShownInFull == JList([i \in 1..FieldsInFull |-> pfields[i].shown])

Decoded == ppc = "done"
Whole == pcut = Len(Encoded)

\* C18: every buffer made by encoding fields of wire types 0, 1, 2 and 5,
\* a message of one integer field included, is decoded without failure to
\* the values encoded, one element per field in order (or, for a message of
\* one field, to the mapping that the decoder makes of a sequence of pairs).
C18_RoundTrip ==
  (Decoded /\ Whole) =>
    /\ pres.ok
    /\ pres.value = Shown \/ (Len(pfields) = 1 /\ pres.value.t = "dict")

\* C18 for messages of two fields or more none of which is a blob holding a
\* message of one integer field.
C18_RoundTripOfSeveralFields ==
  (/\ Decoded /\ Whole /\ Len(pfields) >= 2
   /\ \A i \in 1..Len(pfields) : pfields[i].shown # JList(<<JInt(5)>>)) =>
    (pres.ok /\ pres.value = Shown)

Versions == {"1.0", "1.1"}

\* The arguments that name the four upstreams, in the order shim reads them.
FlagOf ==
  [extension |-> "--extension_server_port",
   inference |-> "--inference_api_server_url",
   api |-> "--api_server_url",
   cloud |-> "--cloud_code_endpoint"]
Channels == <<"extension", "inference", "api", "cloud">>
Flags == { FlagOf[Channels[i]] : i \in 1..4 }

\* The step after the start of the proxy of a channel.
AfterChannel ==
  [extension |-> "inference", inference |-> "api", api |-> "cloud", cloud |-> "spawn"]

\* ' '.join(sys.argv) is a text that is no JSON.
Cmdline == TextPayload(<<"s", "h", "i", "m", " ", "-", "-", "x">>)

NotExited == [exited |-> FALSE, code |-> 0, error_txt |-> FALSE]
\* sys.exit(message) and sys.exit(1) both end the process with code 1; only
\* the handler of __main__ writes error.txt.
ExitedBy(how) ==
  [exited |-> TRUE, code |-> ErrorCode, error_txt |-> how = "Exception"]

InitStart ==
  /\ spc = "version"
  /\ sconfig \in Versions /\ spkg \in Versions
  /\ sargs \in SUBSET Flags
  /\ listeners = {} /\ launched = FALSE /\ sexit = NotExited
  /\ verbose \in BOOLEAN /\ LogFresh
  /\ DeltaIdle /\ ListIdle /\ RelayIdle /\ ProtoIdle /\ ProxyIdle /\ ConcIdle

\* config["version"] != pkg["version"] with the comparison left out.
VersionsDifferNever(config, pkg) == FALSE

\* Line 473.
VersionsDiffer(config, pkg) == config # pkg

\* Lines 471-474: sys.exit raises SystemExit, which the handler of __main__
\* (except Exception) lets through.
CheckVersion ==
  /\ spc = "version"
  /\ IF VersionsDiffer(sconfig, spkg)
     THEN spc' = "exited" /\ sexit' = ExitedBy("SystemExit")
     ELSE spc' = "log" /\ UNCHANGED sexit
  /\ UNCHANGED <<sconfig, spkg, sargs, listeners, launched>>
  /\ UNCHANGED <<dvars, lvars, gvars, rvars, pvars, hvars, cvars>>

\* Lines 475-476: the Log is made and the command line traced.
TraceCmdline ==
  /\ spc = "log"
  /\ \E r \in { TraceResult(LabelStdio, EpCmdline, Cmdline, NoHeaders,
                            NoPayload, NoHeaders) } :
       /\ mode' = r.st.mode
       /\ path' = r.st.path
       /\ file' = r.st.file
       /\ prev_log' = r.prev_log
       /\ lastCall' = [outcome |-> r.outcome, summary |-> r.summary,
                       modeBefore |-> mode, first |-> FALSE,
                       exchange |-> Exchange(LabelStdio, EpCmdline, Cmdline,
                                             NoHeaders, NoPayload, NoHeaders),
                       before |-> [path |-> path, file |-> file,
                                   prev_log |-> prev_log]]
       /\ recent' = Remember(Exchange(LabelStdio, EpCmdline, Cmdline,
                                      NoHeaders, NoPayload, NoHeaders), r.outcome)
  /\ ncalls' = ncalls + 1
  /\ spc' = "extension"
  /\ UNCHANGED <<verbose, firstSummary>>
  /\ UNCHANGED <<sconfig, spkg, sargs, listeners, launched, sexit>>
  /\ UNCHANGED <<dvars, lvars, rvars, pvars, hvars, cvars>>

\* Lines 480-487: the proxy of one channel is started.  args[flag][0] raises
\* KeyError for a flag that is not given, and the listener may fail to start.
StartProxy ==
  /\ spc \in DOMAIN FlagOf
  /\ \/ /\ FlagOf[spc] \in sargs
        /\ listeners' = listeners \cup {spc}
        /\ spc' = AfterChannel[spc]
        /\ UNCHANGED sexit
     \/ /\ FlagOf[spc] \in sargs
        /\ spc' = "exited" /\ sexit' = ExitedBy("Exception")
        /\ UNCHANGED listeners
     \/ /\ FlagOf[spc] \notin sargs
        /\ spc' = "exited" /\ sexit' = ExitedBy("Exception")
        /\ UNCHANGED listeners
  /\ UNCHANGED <<sconfig, spkg, sargs, launched>>
  /\ UNCHANGED <<dvars, lvars, gvars, rvars, pvars, hvars, cvars>>

\* Lines 489-495: the backend is launched.
SpawnChild ==
  /\ spc = "spawn"
  /\ launched' = TRUE
  /\ spc' = "relay"
  /\ UNCHANGED <<sconfig, spkg, sargs, listeners, sexit>>
  /\ UNCHANGED <<dvars, lvars, gvars, rvars, pvars, hvars, cvars>>

NextStart == CheckVersion \/ TraceCmdline \/ StartProxy \/ SpawnChild

SpecStart == InitStart /\ [][NextStart]_vars

\* C20: when the version of the configuration is not the version of the
\* installed backend, shim stops at its check: no trace file is written, no
\* listener is started, the backend is not launched, and the tool exits at
\* once (with code 1, without error.txt).
C20_VersionMismatchStops ==
  sconfig # spkg =>
    /\ spc \in {"version", "exited"}
    /\ file = NoFile /\ mode = "absent" /\ ncalls = 0
    /\ listeners = {}
    /\ ~launched
    /\ spc = "exited" => sexit = ExitedBy("SystemExit")

\* A verbose run (whose first call of Log.trace would write the file) with
\* all upstreams given has stopped on a version mismatch.
C20_Witness ==
  /\ sconfig # spkg
  /\ verbose /\ sargs = Flags
  /\ spc = "exited" /\ sexit.exited /\ sexit.code = ErrorCode
  /\ file = NoFile /\ listeners = {} /\ ~launched

(***************************************************************************)
(* The HTTP proxies: one exchange through start_extension_proxy.handle     *)
(* (lines 389-400) or start_web_proxy.handle (lines 428-452).  The         *)
(* upstream sends the response body hbody chunk by chunk and then ends it. *)
(***************************************************************************)
\* The response body has at most MaxBody chunks.
MaxBody == 2

WebChannels == {"inference", "api", "cloud"}
ProxyChannels == {"extension"} \cup WebChannels
Bodies == UNION { [1..n -> Chunks] : n \in 0..MaxBody }

NotTraced == [some |-> FALSE, body |-> <<>>]

\* How log.trace ends for an exchange: it returns, or raises on the way
\* (lines 164-187), whatever the verbose flag.
TraceEnds == {"returned", "raised"}

InitProxy ==
  /\ hchannel \in ProxyChannels
  /\ hbody \in Bodies
  /\ hsent = 0 /\ hended = FALSE
  /\ hgot = <<>> /\ hcaller = <<>>
  /\ hpc = "request" /\ htraced = NotTraced
  /\ LogIdle
  /\ DeltaIdle /\ ListIdle /\ RelayIdle /\ ProtoIdle /\ StartIdle /\ ConcIdle

\* The upstream sends the next chunk of the body.
UpstreamSend ==
  /\ hpc = "body"
  /\ hsent < Len(hbody)
  /\ hsent' = hsent + 1
  /\ UNCHANGED <<hchannel, hbody, hended, hgot, hcaller, hpc, htraced>>
  /\ UNCHANGED <<dvars, lvars, gvars, rvars, pvars, svars, cvars>>

\* The upstream ends the body.
UpstreamEnd ==
  /\ hpc = "body"
  /\ hsent = Len(hbody) /\ ~hended
  /\ hended' = TRUE
  /\ UNCHANGED <<hchannel, hbody, hsent, hgot, hcaller, hpc, htraced>>
  /\ UNCHANGED <<dvars, lvars, gvars, rvars, pvars, svars, cvars>>

\* Lines 390-396 and 429-442: the request is read and forwarded, and the
\* response is open (in the web proxies the caller's response is prepared).
Forward ==
  /\ hpc = "request"
  /\ hpc' = "body"
  /\ UNCHANGED <<hchannel, hbody, hsent, hended, hgot, hcaller, htraced>>
  /\ UNCHANGED <<dvars, lvars, gvars, rvars, pvars, svars, cvars>>

\* Line 397, resp_body = await resp.read(): the chunks are taken in as they
\* arrive, and the call returns when the body has ended.
ExtensionRead ==
  /\ hchannel = "extension" /\ hpc = "body"
  /\ \/ /\ Len(hgot) < hsent
        /\ hgot' = Append(hgot, hbody[Len(hgot) + 1])
        /\ UNCHANGED hpc
     \/ /\ Len(hgot) = hsent /\ hended
        /\ hpc' = "trace"
        /\ UNCHANGED hgot
  /\ UNCHANGED <<hchannel, hbody, hsent, hended, hcaller, htraced>>
  /\ UNCHANGED <<dvars, lvars, gvars, rvars, pvars, svars, cvars>>

\* Lines 445-448: each chunk is kept and written to the caller before the
\* next one is awaited; write_eof follows the last one.
WebStream ==
  /\ hchannel \in WebChannels /\ hpc = "body"
  /\ \/ /\ Len(hgot) < hsent
        /\ hgot' = Append(hgot, hbody[Len(hgot) + 1])
        /\ hcaller' = Append(hcaller, hbody[Len(hgot) + 1])
        /\ UNCHANGED hpc
     \/ /\ Len(hgot) = hsent /\ hended
        /\ hpc' = "trace"
        /\ UNCHANGED <<hgot, hcaller>>
  /\ UNCHANGED <<hchannel, hbody, hsent, hended, htraced>>
  /\ UNCHANGED <<dvars, lvars, gvars, rvars, pvars, svars, cvars>>

\* Lines 398 and 449-451: the body received is handed to log.trace, which
\* returns or raises.  The extension proxy has yet to answer its caller.
ProxyTrace ==
  /\ hpc = "trace"
  /\ \E how \in TraceEnds :
       /\ htraced' = [some |-> TRUE, body |-> hgot]
       /\ hpc' = IF how = "raised" THEN "failed"
                 ELSE IF hchannel = "extension" THEN "respond" ELSE "done"
  /\ UNCHANGED <<hchannel, hbody, hsent, hended, hgot, hcaller>>
  /\ UNCHANGED <<dvars, lvars, gvars, rvars, pvars, svars, cvars>>

\* Lines 399-400: web.Response(body=resp_body) gives the caller the body.
ExtensionRespond ==
  /\ hchannel = "extension" /\ hpc = "respond"
  /\ hcaller' = hgot
  /\ hpc' = "done"
  /\ UNCHANGED <<hchannel, hbody, hsent, hended, hgot, htraced>>
  /\ UNCHANGED <<dvars, lvars, gvars, rvars, pvars, svars, cvars>>

NextProxy ==
  \/ UpstreamSend \/ UpstreamEnd \/ Forward \/ ExtensionRead \/ WebStream
  \/ ProxyTrace \/ ExtensionRespond

SpecProxy == InitProxy /\ [][NextProxy]_vars

\* C15: in every proxy, while the handler waits for the next chunk of the
\* upstream, every chunk it has received is written to the caller; and the
\* body handed to the trace is the full body.
C15_StreamsChunkByChunk ==
  /\ hpc = "body" => hcaller = hgot
  /\ htraced.some => htraced.body = hbody

\* C15 for the proxies started by start_web_proxy.
C15_WebProxiesStream ==
  hchannel \in WebChannels =>
    /\ hpc = "body" => hcaller = hgot
    /\ htraced.some => htraced.body = hbody

\* The caller of the extension proxy has nothing of the body until the
\* upstream has ended it and the exchange is traced.
C15_ExtensionBuffers ==
  (hchannel = "extension" /\ hcaller # <<>>) => (hended /\ htraced.some)

(***************************************************************************)
(* Log.trace under the event loop.  The callers of Log.trace are the       *)
(* tasks of one asyncio event loop: the relay tasks created at lines       *)
(* 536-538 and the handlers of the proxies.  The loop runs one task at a   *)
(* time, from one await to the next; Log.trace is a plain function (line   *)
(* 152) with no await in it.  SpecConc runs up to MaxTraces calls per task *)
(* and splits each call into its reads and writes of the Log.              *)
(***************************************************************************)
MaxTraces == 1

\* Two of the tasks are handlers of one proxy on one endpoint: they share a
\* diff key.
LoopTasks == {"stdout", "stdin", "handler1", "handler2"}
KeyOf ==
  [stdout |-> "STDIO:stdout", stdin |-> "STDIO:stdin",
   handler1 |-> "CLOUD:/x", handler2 |-> "CLOUD:/x"]
DiffKeys == { KeyOf[t] : t \in LoopTasks }

\* Where a task is: at its await, or in Log.trace before the statement named.
InTrace == {"mode", "header", "prev", "store", "head", "tail"}
NoOne == "none"
NothingRead == [mode |-> "", prev |-> <<>>]
Header == [kind |-> "header", by |-> NoOne, n |-> 0]

\* The positions at which a task would give up the loop if Log.trace
\* awaited between its reads and its writes.
AwaitPointsInTrace == {"await", "header", "store", "tail"}

\* The positions at which a task gives up the loop: its await only.
AwaitPoints == {"await"}

\* The task that runs after a step of t that ends at position pc.
Holder(t, pc) == IF pc \in AwaitPoints THEN NoOne ELSE t

\* A task steps when the loop runs it, or picks it when no task runs.
CanStep(t) == running = t \/ running = NoOne

InitConc ==
  /\ running = NoOne
  /\ cpc = [t \in LoopTasks |-> "await"]
  /\ cread = [t \in LoopTasks |-> NothingRead]
  /\ cdata = [t \in LoopTasks |-> 0]
  /\ cdone = [t \in LoopTasks |-> 0]
  /\ cmode = "absent" /\ cfile = <<>>
  /\ cprev = [k \in DiffKeys |-> <<>>]
  /\ cstale = FALSE
  /\ verbose = TRUE /\ LogFresh
  /\ DeltaIdle /\ ListIdle /\ RelayIdle /\ ProtoIdle /\ StartIdle /\ ProxyIdle

\* What a task waits for arrives: a chunk of the child, a chunk read by the
\* thread of line 522, the end of an exchange.  This happens outside the
\* loop, whatever task runs.
Arrive ==
  /\ \E t \in LoopTasks :
       /\ cdata[t] < MaxTraces
       /\ cdata' = [cdata EXCEPT ![t] = @ + 1]
  /\ UNCHANGED <<running, cpc, cread, cdone, cmode, cfile, cprev, cstale>>
  /\ UNCHANGED <<dvars, lvars, gvars, rvars, pvars, svars, hvars>>

\* The await of t returns and t calls log.trace (lines 398, 451, 512, 525).
EnterTrace ==
  /\ \E t \in LoopTasks :
       /\ CanStep(t) /\ cpc[t] = "await" /\ cdone[t] < cdata[t]
       /\ cpc' = [cpc EXCEPT ![t] = "mode"]
       /\ running' = Holder(t, "mode")
  /\ UNCHANGED <<cread, cdata, cdone, cmode, cfile, cprev, cstale>>
  /\ UNCHANGED <<dvars, lvars, gvars, rvars, pvars, svars, hvars>>

\* Line 127: _preamble reads the mode.
ReadMode ==
  /\ \E t \in LoopTasks :
       /\ CanStep(t) /\ cpc[t] = "mode"
       /\ cread' = [cread EXCEPT ![t].mode = cmode]
       /\ cpc' = [cpc EXCEPT ![t] = "header"]
       /\ running' = Holder(t, "header")
  /\ UNCHANGED <<cdata, cdone, cmode, cfile, cprev, cstale>>
  /\ UNCHANGED <<dvars, lvars, gvars, rvars, pvars, svars, hvars>>

\* Lines 134-137: the header is written when the mode read was absent.
WriteHeader ==
  /\ \E t \in LoopTasks :
       /\ CanStep(t) /\ cpc[t] = "header"
       /\ IF cread[t].mode = "absent"
          THEN cfile' = Append(cfile, Header) /\ cmode' = "preambled"
          ELSE UNCHANGED <<cfile, cmode>>
       /\ cpc' = [cpc EXCEPT ![t] = "prev"]
       /\ running' = Holder(t, "prev")
  /\ UNCHANGED <<cread, cdata, cdone, cprev, cstale>>
  /\ UNCHANGED <<dvars, lvars, gvars, rvars, pvars, svars, hvars>>

\* Line 184: prev = self.prev_log.get(key).
ReadPrev ==
  /\ \E t \in LoopTasks :
       /\ CanStep(t) /\ cpc[t] = "prev"
       /\ cread' = [cread EXCEPT ![t].prev = cprev[KeyOf[t]]]
       /\ cpc' = [cpc EXCEPT ![t] = "store"]
       /\ running' = Holder(t, "store")
  /\ UNCHANGED <<cdata, cdone, cmode, cfile, cprev, cstale>>
  /\ UNCHANGED <<dvars, lvars, gvars, rvars, pvars, svars, hvars>>

\* Line 185: self.prev_log[key] = (request2, response2).  cstale records a
\* store over a state that is no longer the one read.
StorePrev ==
  /\ \E t \in LoopTasks :
       /\ CanStep(t) /\ cpc[t] = "store"
       /\ cstale' = (cstale \/ cprev[KeyOf[t]] # cread[t].prev)
       /\ cprev' = [cprev EXCEPT ![KeyOf[t]] = <<t, cdone[t] + 1>>]
       /\ cpc' = [cpc EXCEPT ![t] = "head"]
       /\ running' = Holder(t, "head")
  /\ UNCHANGED <<cread, cdata, cdone, cmode, cfile>>
  /\ UNCHANGED <<dvars, lvars, gvars, rvars, pvars, svars, hvars>>

\* Lines 186-210: the record is made and reaches the file, its start first;
\* or the call raises on the way and the task leaves Log.trace without one.
WriteHead ==
  /\ \E t \in LoopTasks, how \in TraceEnds :
       /\ CanStep(t) /\ cpc[t] = "head"
       /\ IF how = "raised"
          THEN /\ cdone' = [cdone EXCEPT ![t] = @ + 1]
               /\ cpc' = [cpc EXCEPT ![t] = "await"]
               /\ running' = Holder(t, "await")
               /\ UNCHANGED cfile
          ELSE /\ cfile' = Append(cfile, [kind |-> "head", by |-> t, n |-> cdone[t] + 1])
               /\ cpc' = [cpc EXCEPT ![t] = "tail"]
               /\ running' = Holder(t, "tail")
               /\ UNCHANGED cdone
  /\ UNCHANGED <<cread, cdata, cmode, cprev, cstale>>
  /\ UNCHANGED <<dvars, lvars, gvars, rvars, pvars, svars, hvars>>

\* The rest of the record and its line break; log.trace returns and the task
\* goes on to its next await.
WriteTail ==
  /\ \E t \in LoopTasks :
       /\ CanStep(t) /\ cpc[t] = "tail"
       /\ cfile' = Append(cfile, [kind |-> "tail", by |-> t, n |-> cdone[t] + 1])
       /\ cdone' = [cdone EXCEPT ![t] = @ + 1]
       /\ cpc' = [cpc EXCEPT ![t] = "await"]
       /\ running' = Holder(t, "await")
  /\ UNCHANGED <<cread, cdata, cmode, cprev, cstale>>
  /\ UNCHANGED <<dvars, lvars, gvars, rvars, pvars, svars, hvars>>

NextConc ==
  \/ Arrive \/ EnterTrace \/ ReadMode \/ WriteHeader \/ ReadPrev \/ StorePrev
  \/ WriteHead \/ WriteTail

SpecConc == InitConc /\ [][NextConc]_vars

\* The file holds the header at most once and first, and then records each
\* in one piece: the start of a record is followed by its own end, the last
\* start only when its writer is about to write the end.
OneHeader ==
  \A i \in 1..Len(cfile) : cfile[i].kind = "header" => i = 1
WholeRecords ==
  \A i \in 1..Len(cfile) :
    /\ cfile[i].kind = "head" =>
         IF i < Len(cfile)
         THEN cfile[i + 1] = [cfile[i] EXCEPT !.kind = "tail"]
         ELSE cpc[cfile[i].by] = "tail"
    /\ cfile[i].kind = "tail" =>
         i > 1 /\ cfile[i - 1] = [cfile[i] EXCEPT !.kind = "head"]

\* C16: the calls of Log.trace are serialized: at most one task is inside
\* Log.trace, the file holds the header once and whole records only, and no
\* call stores over a per-key state, or writes the header over a mode, that
\* another call changed after it was read.
C16_TraceCallsSerialized ==
  /\ Cardinality({ t \in LoopTasks : cpc[t] \in InTrace }) <= 1
  /\ OneHeader /\ WholeRecords
  /\ ~cstale
  /\ \A t \in LoopTasks : cpc[t] = "header" => cread[t].mode = cmode
  /\ \A t \in LoopTasks : cpc[t] = "store" => cread[t].prev = cprev[KeyOf[t]]

\* The second handler of the endpoint is between its read and its store of
\* the state of the key that the first handler stored, while the chunks of
\* the other tasks have arrived and wait.
C16_Witness ==
  /\ cpc["handler2"] = "store"
  /\ cread["handler2"].prev = <<"handler1", 1>>
  /\ cdata["stdout"] > cdone["stdout"]
  /\ cdata["stdin"] > cdone["stdin"]
  /\ Len(cfile) = 3

====
